---- MODULE Spec2Model ----
(***************************************************************************)
(* Model of the match-score entry logic of the Matches page                *)
(* (frontend/src/pages/Matches.tsx): parseIntOrNull, validateSet,          *)
(* handleSubmit (validation, outcome derivation, score serialisation) and  *)
(* parseMatchScoreString.                                                  *)
(*                                                                         *)
(* JavaScript strings are sequences of one-character strings, so that      *)
(* number formatting and parsing are computed and not assumed.  A value    *)
(* of type `number | null` is << >> for null and <<n>> for the number n.   *)
(***************************************************************************)
EXTENDS Integers, Sequences, FiniteSets, TLC

VARIABLES
    formData,      \* the form state bag: format, result, sets[1..5]
    scoreError,    \* the validation message shown under the score
    saving,        \* the "saving" flag
    showForm,      \* whether the form is open
    editingMatch,  \* id of the match being edited, 0 for none
    requests,      \* the create/update requests sent to the API, in order
    alertMsg,      \* the last message passed to alert()
    submitted,     \* the formData read by the last handleSubmit
    matches,       \* the stored matches as the page has loaded them
    edits,         \* number of field edits made so far
    everRefused,   \* whether a submit has failed validation so far
    vsArgs,        \* the arguments of the last validateSet call under test
    vsResult,      \* its return value
    scoreArg,      \* the stored score parseMatchScoreString is called with
    scoreSets,     \* its return value
    db,            \* the server's tables: invites, comments, matches, journals, history
    resp,          \* the last response the server has sent
    calls,         \* the preference updates in flight between two awaits
    posted         \* the preference updates received so far, in order

vars == <<formData, scoreError, saving, showForm, editingMatch, requests,
          alertMsg, submitted, matches, edits, everRefused, vsArgs, vsResult,
          scoreArg, scoreSets, db, resp, calls, posted>>

formVars == <<formData, scoreError, saving, showForm, editingMatch, requests,
              alertMsg, submitted, matches, edits, everRefused>>

\* the page's variables and the server's
parseVars == <<scoreArg, scoreSets>>
frontVars == <<formVars, vsArgs, vsResult, parseVars>>
backVars == <<db, resp, calls, posted>>

----------------------------------------------------------------------------
(* Bounds *)

\* largest game count handed to validateSet directly (7 is the largest legal)
MaxGames == 8
\* largest tiebreak point count handed to validateSet directly
MaxTb == 9

----------------------------------------------------------------------------
(* Strings and numbers *)

Null == << >>
Some(n) == <<n>>

DigitChars == <<"0", "1", "2", "3", "4", "5", "6", "7", "8", "9">>

IsDigit(c) == \E i \in 1..10 : DigitChars[i] = c

DigitValue(c) == (CHOOSE i \in 1..10 : DigitChars[i] = c) - 1

IsSpace(c) == c \in {" ", "\t", "\n"}

RECURSIVE NatToString(_)
NatToString(n) ==
    IF n < 10 THEN <<DigitChars[n + 1]>>
    ELSE NatToString(n \div 10) \o <<DigitChars[(n % 10) + 1]>>

\* String(n) and `${n}` for an integer n
NumberToString(n) ==
    IF n < 0 THEN <<"-">> \o NatToString(0 - n) ELSE NatToString(n)

RECURSIVE TrimStart(_)
TrimStart(s) ==
    IF s # << >> /\ IsSpace(Head(s)) THEN TrimStart(Tail(s)) ELSE s

RECURSIVE TrimEnd(_)
TrimEnd(s) ==
    IF s # << >> /\ IsSpace(s[Len(s)]) THEN TrimEnd(SubSeq(s, 1, Len(s) - 1)) ELSE s

\* String.prototype.trim
Trim(s) == TrimEnd(TrimStart(s))

\* length of the longest prefix of s made of digits
RECURSIVE DigitPrefixLen(_)
DigitPrefixLen(s) ==
    IF s # << >> /\ IsDigit(Head(s)) THEN 1 + DigitPrefixLen(Tail(s)) ELSE 0

\* value of a non-empty sequence of digits
RECURSIVE DigitsValue(_)
DigitsValue(s) ==
    IF Len(s) = 1 THEN DigitValue(s[1])
    ELSE 10 * DigitsValue(SubSeq(s, 1, Len(s) - 1)) + DigitValue(s[Len(s)])

\* Number.parseInt(s, 10): leading white space, an optional sign, then the
\* longest run of digits; whatever follows is ignored.  Null stands for NaN.
ParseInt(s) ==
    LET t    == TrimStart(s)
        neg  == t # << >> /\ Head(t) = "-"
        sgn  == t # << >> /\ Head(t) \in {"-", "+"}
        body == IF sgn THEN Tail(t) ELSE t
        k    == DigitPrefixLen(body)
    IN  IF k = 0 THEN Null
        ELSE LET v == DigitsValue(SubSeq(body, 1, k))
             IN  Some(IF neg THEN 0 - v ELSE v)

parseIntOrNull(value) ==
    LET trimmed == Trim(value)
    IN  IF trimmed = << >> THEN Null ELSE ParseInt(trimmed)

Max(a, b) == IF a >= b THEN a ELSE b
Min(a, b) == IF a <= b THEN a ELSE b

----------------------------------------------------------------------------
(* Messages *)

\* A message: label is the n of a leading "Set n: " (0 when there is none),
\* text the fixed wording, detail the interpolated part (a string).
Msg(label, text, detail) == [label |-> label, text |-> text, detail |-> detail]

NoError == Msg(0, "", << >>)

RangeText    == "games must be an integer between 0 and 7."
TiedText     == "set score cannot be tied."
InvalidText  == "invalid set score"
TbReqText    == "tiebreak points are required for a 7-6 set."
TbIntText    == "tiebreak points must be non-negative integers."
TbWinnerText == "tiebreak winner must have at least 7 points."
TbMarginText == "tiebreak must be won by 2 points."

----------------------------------------------------------------------------
(* The server at rest *)

\* a response: the route, the caller, the path parameters, the status and
\* what the body carries
Resp(route, user, student, id, status, body) ==
    [route |-> route, user |-> user, student |-> student, id |-> id,
     status |-> status, body |-> body]

NoResp == Resp("", 0, 0, 0, 0, << >>)

EmptyDb ==
    [invites |-> << >>, comments |-> << >>, matches |-> << >>, journals |-> << >>,
     preferences |-> << >>, utrHistory |-> << >>]

\* no table holds a row and no request has been served
BackIdle ==
    /\ db = EmptyDb
    /\ resp = NoResp
    /\ calls = {}
    /\ posted = << >>

\* a score as the page gets it: the tokens and separators it is made of, and
\* the text (Null for a null or undefined matchScore)
Score(tokens, text) == [tokens |-> tokens, text |-> text]

\* parseMatchScoreString is not being looked at
ParseIdle ==
    /\ scoreArg = Score(<< >>, Null)
    /\ scoreSets = Null

----------------------------------------------------------------------------
(* validateSet *)

inRange(g) == g >= 0 /\ g <= 7

\* mutant of isValidNonTb: a one-game margin is enough at 6
isValidNonTb_Diff1(max, min) ==
    \/ (max = 6 /\ max - min >= 1)
    \/ (max = 7 /\ (min = 5 \/ min = 6))

isValidNonTb(max, min) ==
    \/ (max = 6 /\ max - min >= 2)
    \/ (max = 7 /\ (min = 5 \/ min = 6))

isTiebreakSet(max, min) == max = 7 /\ min = 6

\* mutant of validateTiebreak: the winner's and the loser's points swapped
validateTiebreak_Swapped(label, userWonSet, userTb, oppTb) ==
    LET winnerTb == IF userWonSet THEN oppTb[1] ELSE userTb[1]
        loserTb  == IF userWonSet THEN userTb[1] ELSE oppTb[1]
    IN  IF userTb = Null \/ oppTb = Null
          THEN Msg(label, TbReqText, << >>)
        ELSE IF userTb[1] < 0 \/ oppTb[1] < 0
          THEN Msg(label, TbIntText, << >>)
        ELSE IF winnerTb < 7
          THEN Msg(label, TbWinnerText, << >>)
        ELSE IF winnerTb - loserTb < 2
          THEN Msg(label, TbMarginText, << >>)
        ELSE NoError

\* the branch of validateSet for a 7-6 set
validateTiebreak(label, userWonSet, userTb, oppTb) ==
    LET winnerTb == IF userWonSet THEN userTb[1] ELSE oppTb[1]
        loserTb  == IF userWonSet THEN oppTb[1] ELSE userTb[1]
    IN  IF userTb = Null \/ oppTb = Null
          THEN Msg(label, TbReqText, << >>)
        ELSE IF userTb[1] < 0 \/ oppTb[1] < 0
          THEN Msg(label, TbIntText, << >>)
        ELSE IF winnerTb < 7
          THEN Msg(label, TbWinnerText, << >>)
        ELSE IF winnerTb - loserTb < 2
          THEN Msg(label, TbMarginText, << >>)
        ELSE NoError

\* mutant of validateSet: the tied-score test comes before the range test
validateSet_TiedFirst(setIndex, userGames, oppGames, userTb, oppTb) ==
    LET label == setIndex + 1
        max   == Max(userGames, oppGames)
        min   == Min(userGames, oppGames)
    IN  IF userGames = oppGames
          THEN Msg(label, TiedText, << >>)
        ELSE IF ~inRange(userGames) \/ ~inRange(oppGames)
          THEN Msg(label, RangeText, << >>)
        ELSE IF ~isValidNonTb(max, min)
          THEN Msg(label, InvalidText,
                   NumberToString(userGames) \o <<"-">> \o NumberToString(oppGames))
        ELSE IF isTiebreakSet(max, min)
          THEN validateTiebreak(label, userGames > oppGames, userTb, oppTb)
        ELSE NoError

\* mutant of validateSet: the tied-score test is missing
validateSet_NoTie(setIndex, userGames, oppGames, userTb, oppTb) ==
    LET label == setIndex + 1
        max   == Max(userGames, oppGames)
        min   == Min(userGames, oppGames)
    IN  IF ~inRange(userGames) \/ ~inRange(oppGames)
          THEN Msg(label, RangeText, << >>)
        ELSE IF ~isValidNonTb(max, min)
          THEN Msg(label, InvalidText,
                   NumberToString(userGames) \o <<"-">> \o NumberToString(oppGames))
        ELSE IF isTiebreakSet(max, min)
          THEN validateTiebreak(label, userGames > oppGames, userTb, oppTb)
        ELSE NoError

\* userGames and oppGames are integers, userTb and oppTb integers or Null
\* (what parseIntOrNull yields), so every Number.isInteger test is true.
validateSet(setIndex, userGames, oppGames, userTb, oppTb) ==
    LET label == setIndex + 1
        max   == Max(userGames, oppGames)
        min   == Min(userGames, oppGames)
    IN  IF ~inRange(userGames) \/ ~inRange(oppGames)
          THEN Msg(label, RangeText, << >>)
        ELSE IF userGames = oppGames
          THEN Msg(label, TiedText, << >>)
        ELSE IF ~isValidNonTb(max, min)
          THEN Msg(label, InvalidText,
                   NumberToString(userGames) \o <<"-">> \o NumberToString(oppGames))
        ELSE IF isTiebreakSet(max, min)
          THEN validateTiebreak(label, userGames > oppGames, userTb, oppTb)
        ELSE NoError

----------------------------------------------------------------------------
(* The form *)

emptySet == [userGames |-> << >>, oppGames |-> << >>, userTb |-> << >>, oppTb |-> << >>]

\* the formData of useState and of resetForm (score-related fields)
EmptyForm ==
    [format |-> "bo3", result |-> "",
     sets |-> <<emptySet, emptySet, emptySet, emptySet, emptySet>>]

\* mutant of MaxSets: all five rows are read under every format
MaxSets_Five(fd) == 5

MaxSets(fd) == IF fd.format = "bo5" THEN 5 ELSE 3

\* mutant of SetsToWin: every format is won with two sets
SetsToWin_Two(fd) == 2

SetsToWin(fd) == IF fd.format = "bo5" THEN 3 ELSE 2

\* mutant of isEmpty: || for &&
isEmpty_Either(ug, og) == ug = Null \/ og = Null

isEmpty(ug, og) == ug = Null /\ og = Null

GapText      == "please fill sets in order without gaps."
BothReqText  == "both players' game scores are required."
NoSetText    == "Please enter at least one set score."
MustEndText3 == "Match must end when someone wins N sets for best of 3."
MustEndText5 == "Match must end when someone wins N sets for best of 5."
ExtraText    == "Extra sets entered after the match is already decided."
MismatchText == "Result does not match the score. Based on sets, this should be a"

\* The loop of handleSubmit over the first maxSets rows, from row i (0-based)
\* on: the first error, or the parsed sets.
RECURSIVE ScanSets(_, _, _, _)
ScanSets(fd, i, foundEmpty, parsedSets) ==
    IF i >= MaxSets(fd) THEN [err |-> NoError, parsedSets |-> parsedSets]
    ELSE
      LET s   == fd.sets[i + 1]
          ug  == parseIntOrNull(s.userGames)
          og  == parseIntOrNull(s.oppGames)
          utb == parseIntOrNull(s.userTb)
          otb == parseIntOrNull(s.oppTb)
      IN  IF isEmpty(ug, og) THEN ScanSets(fd, i + 1, TRUE, parsedSets)
          ELSE IF foundEmpty
            THEN [err |-> Msg(i + 1, GapText, << >>), parsedSets |-> parsedSets]
          ELSE IF ug = Null \/ og = Null
            THEN [err |-> Msg(i + 1, BothReqText, << >>), parsedSets |-> parsedSets]
          ELSE LET err == validateSet(i, ug[1], og[1], utb, otb)
               IN  IF err # NoError
                     THEN [err |-> err, parsedSets |-> parsedSets]
                   ELSE ScanSets(fd, i + 1, foundEmpty,
                                 Append(parsedSets,
                                        [userGames |-> ug[1], oppGames |-> og[1],
                                         userTb |-> utb, oppTb |-> otb]))

\* number of sets among the first n of parsedSets that the user / opponent won
UserWonIn(parsedSets, n) ==
    Cardinality({k \in 1..n : parsedSets[k].userGames > parsedSets[k].oppGames})
OppWonIn(parsedSets, n) ==
    Cardinality({k \in 1..n : parsedSets[k].oppGames > parsedSets[k].userGames})

\* mutant of winnerReachedAt: slice(0, idx) for slice(0, idx + 1)
winnerReachedAt_Prefix(parsedSets, setsToWin) ==
    LET hits == {idx \in 0..(Len(parsedSets) - 1) :
                    \/ UserWonIn(parsedSets, idx) = setsToWin
                    \/ OppWonIn(parsedSets, idx) = setsToWin}
    IN  IF hits = {} THEN 0 - 1
        ELSE CHOOSE idx \in hits : \A j \in hits : idx <= j

\* mutant of winnerReachedAt: the last such index, not the first
winnerReachedAt_Last(parsedSets, setsToWin) ==
    LET hits == {idx \in 0..(Len(parsedSets) - 1) :
                    \/ UserWonIn(parsedSets, idx + 1) = setsToWin
                    \/ OppWonIn(parsedSets, idx + 1) = setsToWin}
    IN  IF hits = {} THEN 0 - 1
        ELSE CHOOSE idx \in hits : \A j \in hits : idx >= j

\* parsedSets.findIndex(...): 0-based index of the first set at which a side's
\* cumulative count equals setsToWin, -1 when there is none
winnerReachedAt(parsedSets, setsToWin) ==
    LET hits == {idx \in 0..(Len(parsedSets) - 1) :
                    \/ UserWonIn(parsedSets, idx + 1) = setsToWin
                    \/ OppWonIn(parsedSets, idx + 1) = setsToWin}
    IN  IF hits = {} THEN 0 - 1
        ELSE CHOOSE idx \in hits : \A j \in hits : idx <= j

\* mutant of SetToString: the suffix is written whenever the loser's tiebreak
\* field holds a number
SetToString_AnyTb(s) ==
    LET userWonSet == s.userGames > s.oppGames
        loserTb == IF userWonSet THEN s.oppTb ELSE s.userTb
        games == NumberToString(s.userGames) \o <<"-">> \o NumberToString(s.oppGames)
    IN  IF loserTb = Null THEN games
        ELSE games \o <<"(">> \o NumberToString(loserTb[1]) \o <<")">>

\* mutant of SetToString: the set winner's tiebreak points are written
SetToString_WinnerTb(s) ==
    LET isTb == Max(s.userGames, s.oppGames) = 7 /\ Min(s.userGames, s.oppGames) = 6
        userWonSet == s.userGames > s.oppGames
        loserTb == IF userWonSet THEN s.userTb ELSE s.oppTb
        games == NumberToString(s.userGames) \o <<"-">> \o NumberToString(s.oppGames)
    IN  IF ~isTb THEN games
        ELSE games \o <<"(">>
                   \o NumberToString(IF loserTb = Null THEN 0 ELSE loserTb[1])
                   \o <<")">>

\* one set of matchScore
SetToString(s) ==
    LET isTb == Max(s.userGames, s.oppGames) = 7 /\ Min(s.userGames, s.oppGames) = 6
        userWonSet == s.userGames > s.oppGames
        loserTb == IF userWonSet THEN s.oppTb ELSE s.userTb
        games == NumberToString(s.userGames) \o <<"-">> \o NumberToString(s.oppGames)
    IN  IF ~isTb THEN games
        ELSE games \o <<"(">>
                   \o NumberToString(IF loserTb = Null THEN 0 ELSE loserTb[1])
                   \o <<")">>

\* parts.join(sep)
RECURSIVE Join(_, _)
Join(parts, sep) ==
    IF parts = << >> THEN << >>
    ELSE IF Len(parts) = 1 THEN parts[1]
    ELSE parts[1] \o sep \o Join(Tail(parts), sep)

matchScoreOf(parsedSets) ==
    Join([k \in 1..Len(parsedSets) |-> SetToString(parsedSets[k])], <<",", " ">>)

\* mutant of derivedResultOf: the comparison reversed
derivedResultOf_Swapped(userSetsWon, oppSetsWon) ==
    IF userSetsWon < oppSetsWon THEN "win" ELSE "loss"

derivedResultOf(userSetsWon, oppSetsWon) ==
    IF userSetsWon > oppSetsWon THEN "win" ELSE "loss"

NoData == [userSetsWon |-> 0, opponentSetsWon |-> 0, matchScore |-> << >>, result |-> ""]

Fail(m) == [err |-> m, data |-> NoData]

\* mutant of checkMatch: the explicit result is not compared with the score
checkMatch_NoMismatch(fd, parsedSets, userSetsWon, oppSetsWon) ==
    IF userSetsWon # SetsToWin(fd) /\ oppSetsWon # SetsToWin(fd)
      THEN Fail(Msg(0, IF fd.format = "bo5" THEN MustEndText5 ELSE MustEndText3,
                    NumberToString(SetsToWin(fd))))
    ELSE IF /\ winnerReachedAt(parsedSets, SetsToWin(fd)) # 0 - 1
            /\ Len(parsedSets) > winnerReachedAt(parsedSets, SetsToWin(fd)) + 1
      THEN Fail(Msg(0, ExtraText, << >>))
    ELSE [err  |-> NoError,
          data |-> [userSetsWon     |-> userSetsWon,
                    opponentSetsWon |-> oppSetsWon,
                    matchScore      |-> matchScoreOf(parsedSets),
                    result          |-> IF fd.result # "" THEN fd.result
                                        ELSE derivedResultOf(userSetsWon, oppSetsWon)]]

\* handleSubmit once the sets are counted: the completion, extra-set and
\* result checks, then matchData (score-related fields)
checkMatch(fd, parsedSets, userSetsWon, oppSetsWon) ==
    IF userSetsWon # SetsToWin(fd) /\ oppSetsWon # SetsToWin(fd)
      THEN Fail(Msg(0, IF fd.format = "bo5" THEN MustEndText5 ELSE MustEndText3,
                    NumberToString(SetsToWin(fd))))
    ELSE IF /\ winnerReachedAt(parsedSets, SetsToWin(fd)) # 0 - 1
            /\ Len(parsedSets) > winnerReachedAt(parsedSets, SetsToWin(fd)) + 1
      THEN Fail(Msg(0, ExtraText, << >>))
    ELSE IF fd.result # "" /\ fd.result # derivedResultOf(userSetsWon, oppSetsWon)
      THEN Fail(Msg(0, MismatchText, <<derivedResultOf(userSetsWon, oppSetsWon)>>))
    ELSE [err  |-> NoError,
          data |-> [userSetsWon     |-> userSetsWon,
                    opponentSetsWon |-> oppSetsWon,
                    matchScore      |-> matchScoreOf(parsedSets),
                    result          |-> IF fd.result # "" THEN fd.result
                                        ELSE derivedResultOf(userSetsWon, oppSetsWon)]]

\* mutant of checkScan: a form without sets goes on to the match checks
checkScan_NoSets(fd, scan) ==
    IF scan.err # NoError THEN Fail(scan.err)
    ELSE checkMatch(fd, scan.parsedSets,
                    UserWonIn(scan.parsedSets, Len(scan.parsedSets)),
                    Len(scan.parsedSets) - UserWonIn(scan.parsedSets, Len(scan.parsedSets)))

\* mutant of checkScan: every error of the loop is reported for set 1
checkScan_SetOne(fd, scan) ==
    IF scan.err # NoError THEN Fail(Msg(1, scan.err.text, scan.err.detail))
    ELSE IF Len(scan.parsedSets) = 0 THEN Fail(Msg(0, NoSetText, << >>))
    ELSE checkMatch(fd, scan.parsedSets,
                    UserWonIn(scan.parsedSets, Len(scan.parsedSets)),
                    Len(scan.parsedSets) - UserWonIn(scan.parsedSets, Len(scan.parsedSets)))

\* handleSubmit after its loop: the loop's error, the empty-score error, or
\* the counting of the sets each side won (a validated set is never tied)
checkScan(fd, scan) ==
    IF scan.err # NoError THEN Fail(scan.err)
    ELSE IF Len(scan.parsedSets) = 0 THEN Fail(Msg(0, NoSetText, << >>))
    ELSE checkMatch(fd, scan.parsedSets,
                    UserWonIn(scan.parsedSets, Len(scan.parsedSets)),
                    Len(scan.parsedSets) - UserWonIn(scan.parsedSets, Len(scan.parsedSets)))

\* The synchronous part of handleSubmit: the error it sets, or the matchData
\* it builds.
buildMatchData(fd) == checkScan(fd, ScanSets(fd, 0, FALSE, << >>))

----------------------------------------------------------------------------
(* parseMatchScoreString *)

\* mutant of IsSep: only a comma separates
IsSep_CommaOnly(c) == c = ","

IsSep(c) == c = "," \/ IsSpace(c)

\* score.split(/\s*,\s*|\s+/).map(trim).filter(Boolean): the maximal runs of
\* characters that are neither commas nor white space
RECURSIVE SplitParts(_, _, _)
SplitParts(score, cur, acc) ==
    IF score = << >> THEN (IF cur = << >> THEN acc ELSE Append(acc, cur))
    ELSE IF IsSep(Head(score))
      THEN SplitParts(Tail(score), << >>, IF cur = << >> THEN acc ELSE Append(acc, cur))
    ELSE SplitParts(Tail(score), Append(cur, Head(score)), acc)

\* mutant of MatchSetPart: the pattern has no tiebreak group
MatchSetPart_NoTb(part) ==
    LET k1    == DigitPrefixLen(part)
        rest1 == SubSeq(part, k1 + 2, Len(part))
        k2    == DigitPrefixLen(rest1)
    IN  IF k1 >= 1 /\ Len(part) > k1 /\ part[k1 + 1] = "-" /\ k2 >= 1 /\ Len(rest1) = k2
          THEN Some([userGames |-> DigitsValue(SubSeq(part, 1, k1)),
                     oppGames  |-> DigitsValue(SubSeq(rest1, 1, k2)),
                     tbLoserPoints |-> Null])
        ELSE Null

\* part.match(/^(\d+)-(\d+)(?:\((\d+)\))?$/): Null, or the parsed set
MatchSetPart(part) ==
    LET k1    == DigitPrefixLen(part)
        rest1 == SubSeq(part, k1 + 2, Len(part))
        k2    == DigitPrefixLen(rest1)
        rest2 == SubSeq(rest1, k2 + 1, Len(rest1))
        inner == SubSeq(rest2, 2, Len(rest2))
        k3    == DigitPrefixLen(inner)
        games == k1 >= 1 /\ Len(part) > k1 /\ part[k1 + 1] = "-" /\ k2 >= 1
        plain == games /\ rest2 = << >>
        withTb == /\ games /\ rest2 # << >> /\ Head(rest2) = "("
                  /\ k3 >= 1 /\ Len(inner) = k3 + 1 /\ inner[k3 + 1] = ")"
        gamesOf == [userGames |-> DigitsValue(SubSeq(part, 1, k1)),
                    oppGames  |-> DigitsValue(SubSeq(rest1, 1, k2))]
    IN  IF plain
          THEN Some([userGames |-> gamesOf.userGames, oppGames |-> gamesOf.oppGames,
                     tbLoserPoints |-> Null])
        ELSE IF withTb
          THEN Some([userGames |-> gamesOf.userGames, oppGames |-> gamesOf.oppGames,
                     tbLoserPoints |-> Some(DigitsValue(SubSeq(inner, 1, k3)))])
        ELSE Null

RECURSIVE CollectSets(_)
CollectSets(parts) ==
    IF parts = << >> THEN << >>
    ELSE LET m == MatchSetPart(Head(parts))
         IN  (IF m = Null THEN << >> ELSE m) \o CollectSets(Tail(parts))

parseMatchScoreString(score) ==
    IF score = << >> THEN << >> ELSE CollectSets(SplitParts(score, << >>, << >>))

\* a null or undefined score is falsy like the empty string
ScoreText(text) == IF text = Null THEN << >> ELSE text[1]

----------------------------------------------------------------------------
(* parseMatchScoreString on its own: a stored score is drawn, then parsed *)

\* most tokens in a drawn score
MaxTokens == 2

\* what stands between commas and white space in a stored score:
\* 6-4, 7-6(5), 10-8, 7-6(12), 7-6, (5), 6-, -4, 6-4x, 7-6(), 7-6(5, a
Tokens ==
    { <<"6", "-", "4">>, <<"7", "-", "6", "(", "5", ")">>,
      <<"1", "0", "-", "8">>, <<"7", "-", "6", "(", "1", "2", ")">>,
      <<"7", "-", "6">>, <<"(", "5", ")">>,
      <<"6", "-">>, <<"-", "4">>,
      <<"6", "-", "4", "x">>, <<"7", "-", "6", "(", ")">>,
      <<"7", "-", "6", "(", "5">>, <<"a">> }

\* what separates two tokens, and what may stand around the score
Seps == {<<",">>, <<" ">>, <<",", " ">>, <<" ", ",", " ", " ">>}
Pads == {<< >>, <<" ">>, <<",">>}

TokenLists == UNION {[1..n -> Tokens] : n \in 0..MaxTokens}

\* the text of the tokens, separated by sep, with pad around it
ScoreOf(tokens, sep, pad) == Score(tokens, Some(pad \o Join(tokens, sep) \o pad))

ParseInit ==
    /\ formData = EmptyForm
    /\ scoreError = NoError
    /\ saving = FALSE
    /\ showForm = FALSE
    /\ editingMatch = 0
    /\ requests = << >>
    /\ alertMsg = ""
    /\ submitted = Null
    /\ matches = << >>
    /\ edits = 0
    /\ everRefused = FALSE
    /\ vsArgs = [setIndex |-> 0, userGames |-> 0, oppGames |-> 0,
                 userTb |-> Null, oppTb |-> Null]
    /\ vsResult = Null
    /\ scoreArg \in {Score(<< >>, Null)}
                    \cup {ScoreOf(tokens, sep, pad) :
                            tokens \in TokenLists, sep \in Seps, pad \in Pads}
    /\ scoreSets = Null
    /\ BackIdle

CallParse ==
    /\ scoreSets = Null
    /\ scoreSets' = Some(parseMatchScoreString(ScoreText(scoreArg.text)))
    /\ UNCHANGED <<formVars, vsArgs, vsResult, scoreArg, backVars>>

ParseNext == CallParse

SpecParse == ParseInit /\ [][ParseNext]_vars

----------------------------------------------------------------------------
(* validateSet on its own: the arguments are drawn, then the call is made *)

GameArgs == (0 - 1)..MaxGames
TbArgs == {Null} \cup {Some(n) : n \in (0 - 1)..MaxTb}

SetInit ==
    /\ formData = EmptyForm
    /\ scoreError = NoError
    /\ saving = FALSE
    /\ showForm = FALSE
    /\ editingMatch = 0
    /\ requests = << >>
    /\ alertMsg = ""
    /\ submitted = Null
    /\ matches = << >>
    /\ edits = 0
    /\ everRefused = FALSE
    /\ vsArgs \in [setIndex : 0..4, userGames : GameArgs, oppGames : GameArgs,
                   userTb : TbArgs, oppTb : TbArgs]
    /\ vsResult = Null
    /\ ParseIdle
    /\ BackIdle

CallValidateSet ==
    /\ vsResult = Null
    /\ vsResult' = Some(validateSet(vsArgs.setIndex, vsArgs.userGames, vsArgs.oppGames,
                                    vsArgs.userTb, vsArgs.oppTb))
    /\ UNCHANGED <<formVars, vsArgs, parseVars, backVars>>

SetNext == CallValidateSet

SpecSet == SetInit /\ [][SetNext]_vars

----------------------------------------------------------------------------
(* Submitting the form *)

\* most requests sent in one run
MaxRequests == 2

Str(n) == NumberToString(n)

GamesRow(ug, og) ==
    [userGames |-> Str(ug), oppGames |-> Str(og), userTb |-> << >>, oppTb |-> << >>]
TbRow(ug, og, utb, otb) ==
    [userGames |-> Str(ug), oppGames |-> Str(og), userTb |-> Str(utb), oppTb |-> Str(otb)]

\* Rows the form may hold when handleSubmit runs.  Every field is free text
\* and rows 4 and 5 keep what was typed under "bo5", so each combination of
\* rows is a form the user can produce.
MatchRows ==
    { emptySet,
      GamesRow(6, 4), GamesRow(3, 6),
      TbRow(7, 6, 7, 4), TbRow(6, 7, 10, 12), TbRow(7, 6, 4, 7),
      \* only one game count typed
      [userGames |-> Str(6), oppGames |-> << >>, userTb |-> << >>, oppTb |-> << >>],
      \* padded text, and a tiebreak field left over on a 6-1 set
      [userGames |-> <<" ", "6">>, oppGames |-> <<"1", " ">>,
       userTb |-> Str(5), oppTb |-> << >>] }

\* The rows of the scenarios of the design document
ScenarioRows ==
    { emptySet,
      GamesRow(6, 4), GamesRow(3, 6), GamesRow(6, 2), GamesRow(6, 0), GamesRow(6, 3),
      TbRow(7, 6, 4, 7), TbRow(7, 6, 7, 4) }

FormInit(rows) ==
    /\ formData \in [format : {"bo3", "bo5"}, result : {"", "win", "loss"},
                     sets : [1..5 -> rows]]
    /\ scoreError = NoError
    /\ saving = FALSE
    /\ showForm = TRUE
    /\ editingMatch = 0
    /\ requests = << >>
    /\ alertMsg = ""
    /\ submitted = Null
    /\ matches = << >>
    /\ edits = 0
    /\ everRefused = FALSE
    /\ vsArgs = [setIndex |-> 0, userGames |-> 0, oppGames |-> 0,
                 userTb |-> Null, oppTb |-> Null]
    /\ vsResult = Null
    /\ ParseIdle
    /\ BackIdle

MatchInit == FormInit(MatchRows)

ScenarioInit == FormInit(ScenarioRows)

\* the request handleSubmit sends
RequestOf(data) ==
    [op   |-> IF editingMatch # 0 THEN "updateMatch" ELSE "createMatch",
     id   |-> editingMatch,
     data |-> data]

\* the list loadMatches fetches once the request has been served: a created
\* match gets the next id, an updated one its new data
Stored(data) ==
    IF editingMatch # 0
      THEN [k \in 1..Len(matches) |->
              IF matches[k].id = editingMatch
                THEN [id |-> editingMatch, data |-> data] ELSE matches[k]]
      ELSE Append(matches, [id |-> Len(matches) + 1, data |-> data])

\* mutant of handleSubmit: a validation error also resets the form
handleSubmit_ResetOnError ==
    /\ showForm
    /\ Len(requests) < MaxRequests
    /\ submitted' = Some(formData)
    /\ saving' = FALSE
    /\ \E out \in {buildMatchData(formData)} :
           \/ /\ out.err # NoError
              /\ scoreError' = out.err
              /\ everRefused' = TRUE
              /\ formData' = EmptyForm
              /\ editingMatch' = 0
              /\ UNCHANGED <<showForm, requests, alertMsg, matches>>
           \/ /\ out.err = NoError
              /\ requests' = Append(requests, RequestOf(out.data))
              /\ matches' = Stored(out.data)
              /\ showForm' = FALSE
              /\ editingMatch' = 0
              /\ formData' = EmptyForm
              /\ scoreError' = NoError
              /\ UNCHANGED <<alertMsg, everRefused>>
           \/ /\ out.err = NoError
              /\ requests' = Append(requests, RequestOf(out.data))
              /\ alertMsg' = "Failed to save match"
              /\ scoreError' = NoError
              /\ UNCHANGED <<formData, showForm, editingMatch, matches, everRefused>>
    /\ UNCHANGED <<edits, vsArgs, vsResult, parseVars, backVars>>

\* handleSubmit, from the submit event to the end of its finally block:
\* a validation error, or the request and its resolution, or its rejection
handleSubmit ==
    /\ showForm
    /\ Len(requests) < MaxRequests
    /\ submitted' = Some(formData)
    /\ saving' = FALSE
    /\ \E out \in {buildMatchData(formData)} :
           \/ /\ out.err # NoError
              /\ scoreError' = out.err
              /\ everRefused' = TRUE
              /\ UNCHANGED <<formData, showForm, editingMatch, requests, alertMsg,
                             matches>>
           \/ /\ out.err = NoError
              /\ requests' = Append(requests, RequestOf(out.data))
              /\ matches' = Stored(out.data)
              /\ showForm' = FALSE
              /\ editingMatch' = 0
              /\ formData' = EmptyForm
              /\ scoreError' = NoError
              /\ UNCHANGED <<alertMsg, everRefused>>
           \/ /\ out.err = NoError
              /\ requests' = Append(requests, RequestOf(out.data))
              /\ alertMsg' = "Failed to save match"
              /\ scoreError' = NoError
              /\ UNCHANGED <<formData, showForm, editingMatch, matches, everRefused>>
    /\ UNCHANGED <<edits, vsArgs, vsResult, parseVars, backVars>>

MatchNext == handleSubmit

SpecMatch == MatchInit /\ [][MatchNext]_vars

SpecScenario == ScenarioInit /\ [][MatchNext]_vars

\* Rows with tiebreak fields left over: typed while the games read 7-6 or
\* 6-6 and kept when the games were changed or cleared
LeftoverRows ==
    { emptySet, GamesRow(6, 4), TbRow(6, 4, 7, 5), TbRow(7, 6, 7, 4),
      [userGames |-> Str(3), oppGames |-> Str(6), userTb |-> <<"x">>, oppTb |-> << >>],
      [userGames |-> << >>, oppGames |-> << >>, userTb |-> Str(3), oppTb |-> << >>] }

LeftoverInit == FormInit(LeftoverRows)

SpecLeftover == LeftoverInit /\ [][MatchNext]_vars

\* Rows of free text: the inputs are text inputs (inputMode is a hint for the
\* keyboard), so a field may hold a letter or a space
FreeTextRows ==
    { emptySet, GamesRow(6, 4), GamesRow(3, 6),
      [userGames |-> <<"x">>, oppGames |-> << >>, userTb |-> << >>, oppTb |-> << >>],
      [userGames |-> <<" ">>, oppGames |-> << >>, userTb |-> Str(3), oppTb |-> << >>] }

FreeTextInit == FormInit(FreeTextRows)

SpecFreeText == FreeTextInit /\ [][MatchNext]_vars

----------------------------------------------------------------------------
(* Editing the form *)

\* most field edits in one run
MaxEdits == 1

\* mutant of shouldShowTiebreak: 6-6 does not count
shouldShowTiebreak_SevenSixOnly(fd, idx) ==
    LET ug == parseIntOrNull(fd.sets[idx + 1].userGames)
        og == parseIntOrNull(fd.sets[idx + 1].oppGames)
    IN  IF ug = Null \/ og = Null THEN FALSE
        ELSE Max(ug[1], og[1]) = 7 /\ Min(ug[1], og[1]) = 6

shouldShowTiebreak(fd, idx) ==
    LET ug == parseIntOrNull(fd.sets[idx + 1].userGames)
        og == parseIntOrNull(fd.sets[idx + 1].oppGames)
    IN  IF ug = Null \/ og = Null THEN FALSE
        ELSE \/ (Max(ug[1], og[1]) = 7 /\ Min(ug[1], og[1]) = 6)
             \/ (ug[1] = 6 /\ og[1] = 6)

\* updateSet(idx, { [field]: value })
updateSet(idx, field, value) ==
    formData' = [formData EXCEPT !.sets[idx + 1][field] = value]

\* what is typed into a games field / a tiebreak field
GameTexts == {<< >>, Str(4), Str(7)}
TbTexts == {Str(5), Str(9)}

\* the onChange of a games input of one of the rendered rows
onGamesChange ==
    /\ showForm /\ edits < MaxEdits
    /\ \E idx \in 0..(MaxSets(formData) - 1) :
       \E field \in {"userGames", "oppGames"} :
       \E value \in GameTexts :
           /\ formData.sets[idx + 1][field] # value
           /\ updateSet(idx, field, value)
    /\ edits' = edits + 1
    /\ UNCHANGED <<scoreError, saving, showForm, editingMatch, requests, alertMsg,
                   submitted, matches, everRefused, vsArgs, vsResult, parseVars, backVars>>

\* the onChange of a tiebreak input: rendered only while shouldShowTiebreak
onTbChange ==
    /\ showForm /\ edits < MaxEdits
    /\ \E idx \in 0..(MaxSets(formData) - 1) :
       \E field \in {"userTb", "oppTb"} :
       \E value \in TbTexts :
           /\ shouldShowTiebreak(formData, idx)
           /\ formData.sets[idx + 1][field] # value
           /\ updateSet(idx, field, value)
    /\ edits' = edits + 1
    /\ UNCHANGED <<scoreError, saving, showForm, editingMatch, requests, alertMsg,
                   submitted, matches, everRefused, vsArgs, vsResult, parseVars, backVars>>

\* the onChange of the result select
onResultChange ==
    /\ showForm /\ edits < MaxEdits
    /\ \E value \in {"", "win", "loss"} :
           /\ formData.result # value
           /\ formData' = [formData EXCEPT !.result = value]
    /\ edits' = edits + 1
    /\ UNCHANGED <<scoreError, saving, showForm, editingMatch, requests, alertMsg,
                   submitted, matches, everRefused, vsArgs, vsResult, parseVars, backVars>>

\* the onChange of the match type select
onFormatChange ==
    /\ showForm /\ edits < MaxEdits
    /\ \E value \in {"bo3", "bo5"} :
           /\ formData.format # value
           /\ formData' = [formData EXCEPT !.format = value]
    /\ edits' = edits + 1
    /\ UNCHANGED <<scoreError, saving, showForm, editingMatch, requests, alertMsg,
                   submitted, matches, everRefused, vsArgs, vsResult, parseVars, backVars>>

toggleForm ==
    /\ IF showForm
         THEN editingMatch' = 0 /\ formData' = EmptyForm /\ scoreError' = NoError
         ELSE UNCHANGED <<editingMatch, formData, scoreError>>
    /\ showForm' = ~showForm
    /\ UNCHANGED <<saving, requests, alertMsg, submitted, matches, edits, everRefused,
                   vsArgs, vsResult, parseVars, backVars>>

\* mutant of LoadedSet: the winner is given two points more than the loser
LoadedSet_PlusTwo(ps) ==
    LET userWonSet == ps.userGames > ps.oppGames
        loser      == ps.tbLoserPoints[1]
        winner     == loser + 2
    IN  IF ps.tbLoserPoints = Null
          THEN GamesRow(ps.userGames, ps.oppGames)
        ELSE IF userWonSet
          THEN TbRow(ps.userGames, ps.oppGames, winner, loser)
        ELSE TbRow(ps.userGames, ps.oppGames, loser, winner)

\* the row handleEdit fills from a parsed set: the winner's tiebreak points
\* are inferred as max(7, loser + 2)
LoadedSet(ps) ==
    LET userWonSet == ps.userGames > ps.oppGames
        loser      == ps.tbLoserPoints[1]
        winner     == Max(7, loser + 2)
    IN  IF ps.tbLoserPoints = Null
          THEN GamesRow(ps.userGames, ps.oppGames)
        ELSE IF userWonSet
          THEN TbRow(ps.userGames, ps.oppGames, winner, loser)
        ELSE TbRow(ps.userGames, ps.oppGames, loser, winner)

\* the formData handleEdit sets for a stored match with the given score
EditForm(result, parsed) ==
    [format |-> IF Len(parsed) >= 4 THEN "bo5" ELSE "bo3",
     result |-> result,
     sets   |-> [k \in 1..5 |-> IF k <= Len(parsed) THEN LoadedSet(parsed[k])
                                ELSE emptySet]]

handleEdit(match) ==
    /\ editingMatch' = match.id
    /\ formData' = EditForm(match.data.result, parseMatchScoreString(match.data.matchScore))
    /\ scoreError' = NoError
    /\ showForm' = TRUE
    /\ UNCHANGED <<saving, requests, alertMsg, submitted, matches, edits, everRefused,
                   vsArgs, vsResult, parseVars, backVars>>

\* the Edit button of a listed match
onEditClick == \E k \in 1..Len(matches) : handleEdit(matches[k])

\* Rows of the form when the editing starts
EditRows ==
    { emptySet, GamesRow(6, 4), GamesRow(3, 6), TbRow(7, 6, 7, 6),
      [userGames |-> Str(6), oppGames |-> << >>, userTb |-> << >>, oppTb |-> << >>] }

\* the form is open with something typed into the first three rows
EditInit ==
    /\ FormInit(EditRows)
    /\ formData.sets[4] = emptySet /\ formData.sets[5] = emptySet

EditNext ==
    \/ handleSubmit
    \/ onGamesChange
    \/ onTbChange
    \/ onResultChange
    \/ onFormatChange
    \/ toggleForm
    \/ onEditClick

SpecForm == EditInit /\ [][EditNext]_vars

\* Rows whose tiebreak fields are looked at: 6-6, 7-6 without tiebreak
\* points, 6-7 with them, 7-5, "7x"-6 and a row with one game count
ShowRows ==
    { emptySet, GamesRow(6, 6), GamesRow(7, 6), TbRow(6, 7, 5, 7), GamesRow(7, 5),
      [userGames |-> <<"7", "x">>, oppGames |-> Str(6), userTb |-> << >>, oppTb |-> << >>],
      [userGames |-> Str(6), oppGames |-> << >>, userTb |-> << >>, oppTb |-> << >>] }

\* the form is open with something typed into the first two rows
ShowInit ==
    /\ FormInit(ShowRows)
    /\ \A k \in 3..5 : formData.sets[k] = emptySet

ShowNext ==
    \/ handleSubmit
    \/ onGamesChange
    \/ onTbChange

SpecShow == ShowInit /\ [][ShowNext]_vars

\* Rows of a match that is submitted, stored and loaded again
RoundRows ==
    { emptySet, GamesRow(6, 4), GamesRow(3, 6), TbRow(7, 6, 9, 7), TbRow(6, 7, 3, 9),
      TbRow(7, 6, 7, 5) }

RoundInit == FormInit(RoundRows)

RoundNext == handleSubmit \/ onEditClick

SpecRoundTrip == RoundInit /\ [][RoundNext]_vars

----------------------------------------------------------------------------
(* The server: update and delete of matches and journal entries *)

\* the page at rest while the server is looked at
FrontIdle ==
    /\ formData = EmptyForm
    /\ scoreError = NoError
    /\ saving = FALSE
    /\ showForm = FALSE
    /\ editingMatch = 0
    /\ requests = << >>
    /\ alertMsg = ""
    /\ submitted = Null
    /\ matches = << >>
    /\ edits = 0
    /\ everRefused = FALSE
    /\ vsArgs = [setIndex |-> 0, userGames |-> 0, oppGames |-> 0,
                 userTb |-> Null, oppTb |-> Null]
    /\ vsResult = Null
    /\ ParseIdle

\* req.user?.userId: 0 when the token carries none
Callers == 0..2

\* req.params.id as text
IdTexts == {Str(1), Str(2), Str(3), <<"x">>}

\* the fields of a request body, as one value; Null when the body has none
Bodies == {Null, Some("a"), Some("b")}

Row(id, userId, data) == [id |-> id, userId |-> userId, data |-> data]

\* updateMany({ where: { id, userId }, data }): the table, and the count
updateMany(table, id, userId, body) ==
    [rows  |-> [k \in 1..Len(table) |->
                  IF table[k].id = id /\ table[k].userId = userId /\ body # Null
                    THEN Row(id, userId, body[1]) ELSE table[k]],
     count |-> Cardinality({k \in 1..Len(table) :
                              table[k].id = id /\ table[k].userId = userId})]

\* deleteMany({ where: { id, userId } })
deleteMany(table, id, userId) ==
    [rows  |-> SelectSeq(table, LAMBDA r : ~(r.id = id /\ r.userId = userId)),
     count |-> Cardinality({k \in 1..Len(table) :
                              table[k].id = id /\ table[k].userId = userId})]

\* mutant of putRow: the update is scoped by the id only
putRow_AnyOwner(route, field, userId, idText, body) ==
    /\ \E id \in {ParseInt(idText)} :
         IF userId = 0
           THEN /\ resp' = Resp(route, userId, 0, 0, 401, << >>)
                /\ UNCHANGED db
         ELSE IF id = Null
           THEN /\ resp' = Resp(route, userId, 0, 0, 400, << >>)
                /\ UNCHANGED db
         ELSE \E owner \in 1..2 : \E out \in {updateMany(db[field], id[1], owner, body)} :
                /\ out.count # 0 \/ owner = userId
                /\ IF out.count = 0
                     THEN /\ resp' = Resp(route, userId, 0, id[1], 404, << >>)
                          /\ UNCHANGED db
                     ELSE /\ resp' = Resp(route, userId, 0, id[1], 200, << >>)
                          /\ db' = [db EXCEPT ![field] = out.rows]
    /\ UNCHANGED <<frontVars, calls, posted>>

\* PUT /:id of the matches and of the journal router
putRow(route, field, userId, idText, body) ==
    /\ \E id \in {ParseInt(idText)} :
         IF userId = 0
           THEN /\ resp' = Resp(route, userId, 0, 0, 401, << >>)
                /\ UNCHANGED db
         ELSE IF id = Null
           THEN /\ resp' = Resp(route, userId, 0, 0, 400, << >>)
                /\ UNCHANGED db
         ELSE \E out \in {updateMany(db[field], id[1], userId, body)} :
                IF out.count = 0
                  THEN /\ resp' = Resp(route, userId, 0, id[1], 404, << >>)
                       /\ UNCHANGED db
                  ELSE /\ resp' = Resp(route, userId, 0, id[1], 200, << >>)
                       /\ db' = [db EXCEPT ![field] = out.rows]
    /\ UNCHANGED <<frontVars, calls, posted>>

\* DELETE /:id of the matches and of the journal router
deleteRow(route, field, userId, idText) ==
    /\ \E id \in {ParseInt(idText)} :
         IF userId = 0
           THEN /\ resp' = Resp(route, userId, 0, 0, 401, << >>)
                /\ UNCHANGED db
         ELSE IF id = Null
           THEN /\ resp' = Resp(route, userId, 0, 0, 400, << >>)
                /\ UNCHANGED db
         ELSE \E out \in {deleteMany(db[field], id[1], userId)} :
                IF out.count = 0
                  THEN /\ resp' = Resp(route, userId, 0, id[1], 404, << >>)
                       /\ UNCHANGED db
                  ELSE /\ resp' = Resp(route, userId, 0, id[1], 200, << >>)
                       /\ db' = [db EXCEPT ![field] = out.rows]
    /\ UNCHANGED <<frontVars, calls, posted>>

putMatch ==
    \E userId \in Callers : \E idText \in IdTexts : \E body \in Bodies :
        putRow("PUT /matches/:id", "matches", userId, idText, body)

deleteMatch ==
    \E userId \in Callers : \E idText \in IdTexts :
        deleteRow("DELETE /matches/:id", "matches", userId, idText)

putJournal ==
    \E userId \in Callers : \E idText \in IdTexts : \E body \in Bodies :
        putRow("PUT /journal/:id", "journals", userId, idText, body)

deleteJournal ==
    \E userId \in Callers : \E idText \in IdTexts :
        deleteRow("DELETE /journal/:id", "journals", userId, idText)

\* each of the two users has stored one match and one journal entry
OwnerInit ==
    /\ FrontIdle
    /\ db = [EmptyDb EXCEPT
               !.matches  = <<Row(1, 1, "m1"), Row(2, 2, "m2")>>,
               !.journals = <<Row(1, 1, "j1"), Row(2, 2, "j2")>>]
    /\ resp = NoResp
    /\ calls = {}
    /\ posted = << >>

OwnerNext == putMatch \/ deleteMatch \/ putJournal \/ deleteJournal

SpecOwner == OwnerInit /\ [][OwnerNext]_vars

----------------------------------------------------------------------------
(* The server: preferences and the UTR history *)

\* most preference updates received in one run
MaxPosts == 3

\* a value of req.body.utrRating: its typeof, and for a number whether it is
\* finite and its value in tenths
JsNumber(tenths) == [type |-> "number", finite |-> TRUE, tenths |-> tenths]
JsInfinity == [type |-> "number", finite |-> FALSE, tenths |-> 0]
JsNull == [type |-> "object", finite |-> FALSE, tenths |-> 0]

\* what the two users send: 7.1, 7.4, 1e999, null
RatingInputs == {JsNumber(71), JsNumber(74), JsInfinity, JsNull}

\* mutant of latestRating: the newest entry of any user
latestRating_AnyUser(history, userId) ==
    IF history = << >> THEN Null
    ELSE Some(history[Len(history)].rating)

\* utrHistory.findFirst({ where: { userId }, orderBy: { recordedAt: 'desc' } }):
\* Null, or the rating of the user's newest entry
latestRating(history, userId) ==
    LET own == {k \in 1..Len(history) : history[k].userId = userId}
    IN  IF own = {} THEN Null
        ELSE Some(history[CHOOSE k \in own : \A j \in own : j <= k].rating)

\* the preferences table after upsert({ where: { userId }, ... })
upsert(table, userId, utrRating) ==
    IF \E k \in 1..Len(table) : table[k].userId = userId
      THEN [k \in 1..Len(table) |->
              IF table[k].userId = userId
                THEN [userId |-> userId, utrRating |-> utrRating] ELSE table[k]]
      ELSE Append(table, [userId |-> userId, utrRating |-> utrRating])

PrefRoute == "POST /preferences"

\* what a finished call of recordUtrHistoryIfChanged leaves to look at
Returned(c, value) == <<[returned |-> value, rating |-> c.rating, latest |-> c.latest]>>

\* POST /preferences up to the end of the upsert
postPreferences ==
    /\ Len(posted) < MaxPosts
    /\ \E userId \in Callers : \E utrRating \in RatingInputs :
         IF userId = 0
           THEN /\ resp' = Resp(PrefRoute, 0, 0, 0, 401, << >>)
                /\ UNCHANGED <<db, calls, posted>>
           ELSE /\ db' = [db EXCEPT !.preferences = upsert(@, userId, utrRating)]
                /\ posted' = Append(posted, [userId |-> userId, utrRating |-> utrRating,
                                              alone |-> calls = {}])
                /\ calls' = calls \cup
                       {[n |-> Len(posted) + 1, userId |-> userId,
                         rating |-> IF utrRating.type = "number" THEN Some(utrRating)
                                    ELSE Null,
                         pc |-> "find", latest |-> Null]}
                /\ UNCHANGED resp
    /\ UNCHANGED frontVars

\* recordUtrHistoryIfChanged up to the end of findFirst; with a null or
\* non-finite rating it returns false at once and the handler responds
recordFind ==
    /\ \E c \in calls :
         /\ c.pc = "find"
         /\ IF c.rating = Null \/ ~c.rating[1].finite
              THEN /\ resp' = Resp(PrefRoute, c.userId, 0, c.n, 200, Returned(c, FALSE))
                   /\ calls' = calls \ {c}
              ELSE /\ calls' = (calls \ {c}) \cup
                         {[c EXCEPT !.pc = "create",
                                    !.latest = latestRating(db.utrHistory, c.userId)]}
                   /\ UNCHANGED resp
    /\ UNCHANGED <<frontVars, db, posted>>

\* recordUtrHistoryIfChanged from the comparison on, and the response
recordCreate ==
    /\ \E c \in calls :
         /\ c.pc = "create"
         /\ calls' = calls \ {c}
         /\ IF c.latest # Null /\ c.latest[1] = c.rating[1].tenths
              THEN /\ resp' = Resp(PrefRoute, c.userId, 0, c.n, 200, Returned(c, FALSE))
                   /\ UNCHANGED db
              ELSE /\ db' = [db EXCEPT !.utrHistory =
                                Append(@, [userId |-> c.userId,
                                           rating |-> c.rating[1].tenths])]
                   /\ resp' = Resp(PrefRoute, c.userId, 0, c.n, 200, Returned(c, TRUE))
    /\ UNCHANGED <<frontVars, posted>>

UtrInit == FrontIdle /\ BackIdle

UtrNext == postPreferences \/ recordFind \/ recordCreate

SpecUtr == UtrInit /\ [][UtrNext]_vars

----------------------------------------------------------------------------
(* The server: coach invites and the coach's view of a student *)

\* most comments stored in one run
MaxComments == 1

S1Email == <<"s", "1", "@", "t", ".", "i", "o">>
S2Email == <<"s", "2", "@", "t", ".", "i", "o">>
C1Email == <<"c", "1", "@", "t", ".", "i", "o">>
C2Email == <<"c", "2", "@", "t", ".", "i", "o">>

\* the registered users: two students and two coaches
Users ==
    << [id |-> 1, email |-> S1Email, role |-> "student"],
       [id |-> 2, email |-> C1Email, role |-> "coach"],
       [id |-> 3, email |-> C2Email, role |-> "coach"],
       [id |-> 4, email |-> S2Email, role |-> "student"] >>

\* the userId of the token: 0 for a user that is not in the table
CoachCallers == 0..3

\* req.body.coachEmail: missing, the first coach's address (also padded and
\* in capitals), the other student's, the caller's own, and one that is no
\* address; the second coach is never invited
EmailInputs ==
    { Null, Some(C1Email), Some(<<" ", "C", "1", "@", "T", ".", "i", "o">>),
      Some(S2Email), Some(S1Email), Some(<<"b", "a", "d">>) }

\* toLowerCase on the capitals that occur in EmailInputs
LowerChar(c) == CASE c = "C" -> "c" [] c = "T" -> "t" [] OTHER -> c

normalizeEmail(email) == [k \in 1..Len(Trim(email)) |-> LowerChar(Trim(email)[k])]

\* /^[^\s@]+@[^\s@]+\.[^\s@]+$/
isValidEmail(email) ==
    /\ \A k \in 1..Len(email) : ~IsSpace(email[k])
    /\ Cardinality({k \in 1..Len(email) : email[k] = "@"}) = 1
    /\ \E at \in 2..Len(email) :
         /\ email[at] = "@"
         /\ \E dot \in (at + 2)..(Len(email) - 1) : email[dot] = "."

\* prisma.user.findUnique({ where: { id } }): Null, or the user
getCurrentUser(userId) ==
    IF \E k \in 1..Len(Users) : Users[k].id = userId
      THEN Some(Users[CHOOSE k \in 1..Len(Users) : Users[k].id = userId])
      ELSE Null

\* prisma.user.findUnique({ where: { email } }): Null, or the user
findByEmail(email) ==
    IF \E k \in 1..Len(Users) : Users[k].email = email
      THEN Some(Users[CHOOSE k \in 1..Len(Users) : Users[k].email = email])
      ELSE Null

\* mutant of ensureCoachAccess: the invite's status is not looked at
ensureCoachAccess_AnyStatus(coachId, studentId) ==
    \E k \in 1..Len(db.invites) :
        /\ db.invites[k].coachId = coachId
        /\ db.invites[k].studentId = studentId

ensureCoachAccess(coachId, studentId) ==
    \E k \in 1..Len(db.invites) :
        /\ db.invites[k].coachId = coachId
        /\ db.invites[k].studentId = studentId
        /\ db.invites[k].status = "accepted"

\* the raw parameters of a request to a coach route, in this order:
\* req.params.studentId, req.params.id, req.body.content, req.query.sort
Req(studentId, id, content, sort) == <<studentId, id, content, sort>>

NoReq == Req(<< >>, << >>, Null, Null)

\* Number.parseInt(text, 10) as kept in a response: 0 for NaN
IdOf(text) == IF ParseInt(text) = Null THEN 0 ELSE ParseInt(text)[1]

\* a response of a coach route: with the parameters it answers, and the ids
\* of the rows its body carries (none with an error)
CoachResp(route, userId, req, status, data) ==
    Resp(route, userId, IdOf(req[1]), IdOf(req[2]), status,
         <<[req |-> req, data |-> data]>>)

\* a handler that answers without writing
Answer(r) ==
    /\ resp' = r
    /\ UNCHANGED <<db, frontVars, calls, posted>>

\* POST /invites
postInvite ==
    \E userId \in CoachCallers : \E coachEmail \in EmailInputs :
    \E route \in {"POST /invites"} : \E user \in {getCurrentUser(userId)} :
        IF user = Null THEN Answer(CoachResp(route, userId, NoReq, 401, {}))
        ELSE IF user[1].role # "student"
          THEN Answer(CoachResp(route, userId, NoReq, 403, {}))
        ELSE IF coachEmail = Null \/ coachEmail = Some(<< >>)
          THEN Answer(CoachResp(route, userId, NoReq, 400, {}))
        ELSE \E normalizedEmail \in {normalizeEmail(coachEmail[1])} :
             \E coachUser \in {findByEmail(normalizedEmail)} :
          IF ~isValidEmail(normalizedEmail)
            THEN Answer(CoachResp(route, userId, NoReq, 400, {}))
          ELSE IF normalizedEmail = user[1].email
            THEN Answer(CoachResp(route, userId, NoReq, 400, {}))
          ELSE IF coachUser # Null /\ coachUser[1].role # "coach"
            THEN Answer(CoachResp(route, userId, NoReq, 400, {}))
          ELSE IF \E k \in 1..Len(db.invites) :
                     /\ db.invites[k].studentId = user[1].id
                     /\ db.invites[k].coachEmail = normalizedEmail
            THEN Answer(CoachResp(route, userId, NoReq, 400, {}))
          ELSE /\ db' = [db EXCEPT !.invites =
                           Append(@, [id         |-> Len(db.invites) + 1,
                                      studentId  |-> user[1].id,
                                      coachId    |-> IF coachUser = Null THEN 0
                                                     ELSE coachUser[1].id,
                                      coachEmail |-> normalizedEmail,
                                      status     |-> "pending"])]
               /\ resp' = CoachResp(route, userId, NoReq, 201, {Len(db.invites) + 1})
               /\ UNCHANGED <<frontVars, calls, posted>>

\* mutant of answerInvite: the answer is acknowledged and not stored
answerInvite_NotStored(route, status, userId, idText) ==
    \E user \in {getCurrentUser(userId)} : \E req \in {Req(<< >>, idText, Null, Null)} :
        IF user = Null THEN Answer(CoachResp(route, userId, req, 401, {}))
        ELSE IF user[1].role # "coach"
          THEN Answer(CoachResp(route, userId, req, 403, {}))
        ELSE IF ParseInt(idText) = Null
          THEN Answer(CoachResp(route, userId, req, 400, {}))
        ELSE IF ~\E k \in 1..Len(db.invites) :
                     /\ db.invites[k].id = IdOf(idText)
                     /\ db.invites[k].coachEmail = user[1].email
          THEN Answer(CoachResp(route, userId, req, 404, {}))
        ELSE Answer(CoachResp(route, userId, req, 200, {IdOf(idText)}))

\* mutant of answerInvite: the invite is looked up by its id alone
answerInvite_AnyCoach(route, status, userId, idText) ==
    \E user \in {getCurrentUser(userId)} : \E req \in {Req(<< >>, idText, Null, Null)} :
        IF user = Null THEN Answer(CoachResp(route, userId, req, 401, {}))
        ELSE IF user[1].role # "coach"
          THEN Answer(CoachResp(route, userId, req, 403, {}))
        ELSE IF ParseInt(idText) = Null
          THEN Answer(CoachResp(route, userId, req, 400, {}))
        ELSE IF ~\E k \in 1..Len(db.invites) : db.invites[k].id = IdOf(idText)
          THEN Answer(CoachResp(route, userId, req, 404, {}))
        ELSE IF db.invites[IdOf(idText)].status # "pending"
          THEN Answer(CoachResp(route, userId, req, 400, {}))
        ELSE /\ db' = [db EXCEPT !.invites[IdOf(idText)] =
                         [@ EXCEPT !.status = status, !.coachId = user[1].id]]
             /\ resp' = CoachResp(route, userId, req, 200, {IdOf(idText)})
             /\ UNCHANGED <<frontVars, calls, posted>>

\* POST /invites/:id/accept and POST /invites/:id/decline
answerInvite(route, status, userId, idText) ==
    \E user \in {getCurrentUser(userId)} : \E req \in {Req(<< >>, idText, Null, Null)} :
        IF user = Null THEN Answer(CoachResp(route, userId, req, 401, {}))
        ELSE IF user[1].role # "coach"
          THEN Answer(CoachResp(route, userId, req, 403, {}))
        ELSE IF ParseInt(idText) = Null
          THEN Answer(CoachResp(route, userId, req, 400, {}))
        ELSE IF ~\E k \in 1..Len(db.invites) :
                     /\ db.invites[k].id = IdOf(idText)
                     /\ db.invites[k].coachEmail = user[1].email
          THEN Answer(CoachResp(route, userId, req, 404, {}))
        ELSE IF db.invites[IdOf(idText)].status # "pending"
          THEN Answer(CoachResp(route, userId, req, 400, {}))
        ELSE /\ db' = [db EXCEPT !.invites[IdOf(idText)] =
                         [@ EXCEPT !.status = status, !.coachId = user[1].id]]
             /\ resp' = CoachResp(route, userId, req, 200, {IdOf(idText)})
             /\ UNCHANGED <<frontVars, calls, posted>>

acceptInvite ==
    \E userId \in CoachCallers : \E idText \in IdTexts :
        answerInvite("POST /invites/:id/accept", "accepted", userId, idText)

declineInvite ==
    \E userId \in CoachCallers : \E idText \in IdTexts :
        answerInvite("POST /invites/:id/decline", "declined", userId, idText)

\* GET /students: the students of the caller's accepted invites
getStudents ==
    \E userId \in CoachCallers : \E route \in {"GET /students"} :
    \E user \in {getCurrentUser(userId)} :
        IF user = Null THEN Answer(CoachResp(route, userId, NoReq, 401, {}))
        ELSE IF user[1].role # "coach"
          THEN Answer(CoachResp(route, userId, NoReq, 403, {}))
        ELSE Answer(CoachResp(route, userId, NoReq, 200,
                 {db.invites[k].studentId : k \in
                    {j \in 1..Len(db.invites) :
                       /\ db.invites[j].coachId = user[1].id
                       /\ db.invites[j].status = "accepted"}}))

\* req.params.studentId: the two students, and a text that is no number
StudentTexts == {Str(1), Str(4), <<"x">>}

\* req.params.id of a journal entry or a match
EntryTexts == {Str(1), Str(2), <<"x">>}

\* req.body.content: missing, blank, and a text
Contents == {Null, Some(<<" ">>), Some(<<" ", "o", "k">>)}

\* req.query.sort: absent, a sort of the journal list only, and an unknown one
Sorts == {Null, Some("title-asc"), Some("bogus")}

JournalSorts == {"date-desc", "date-asc", "title-asc", "title-desc"}

MatchSorts == {"date-desc", "date-asc", "opponent-asc", "opponent-desc"}

\* !content || !content.trim()
NoContent(content) ==
    content = Null \/ content = Some(<< >>) \/ Trim(content[1]) = << >>

Comment(kind, studentId, coachId, entryId, content) ==
    [kind |-> kind, studentId |-> studentId, coachId |-> coachId,
     entryId |-> entryId, content |-> content]

\* profileComment.create, journalComment.create and matchComment.create
createComment(route, userId, req, comment) ==
    /\ Len(db.comments) < MaxComments
    /\ db' = [db EXCEPT !.comments = Append(@, comment)]
    /\ resp' = CoachResp(route, userId, req, 201, {Len(db.comments) + 1})
    /\ UNCHANGED <<frontVars, calls, posted>>

\* findFirst({ where: { id, userId: studentId } }) on a table of the student's
hasEntry(table, id, studentId) ==
    \E k \in 1..Len(table) : table[k].id = id /\ table[k].userId = studentId

\* GET /students/:studentId/profile
getProfile ==
    \E userId \in CoachCallers : \E studentText \in StudentTexts :
    \E route \in {"GET /students/:studentId/profile"} :
    \E user \in {getCurrentUser(userId)} :
    \E req \in {Req(studentText, << >>, Null, Null)} :
        IF user = Null THEN Answer(CoachResp(route, userId, req, 401, {}))
        ELSE IF user[1].role # "coach"
          THEN Answer(CoachResp(route, userId, req, 403, {}))
        ELSE IF ParseInt(studentText) = Null
          THEN Answer(CoachResp(route, userId, req, 400, {}))
        ELSE IF ~ensureCoachAccess(user[1].id, IdOf(studentText))
          THEN Answer(CoachResp(route, userId, req, 403, {}))
        ELSE IF getCurrentUser(IdOf(studentText)) = Null
          THEN Answer(CoachResp(route, userId, req, 404, {}))
        ELSE Answer(CoachResp(route, userId, req, 200, {IdOf(studentText)}))

\* POST /students/:studentId/profile/comments
postProfileComment ==
    \E userId \in CoachCallers : \E studentText \in StudentTexts :
    \E content \in Contents :
    \E route \in {"POST /students/:studentId/profile/comments"} :
    \E user \in {getCurrentUser(userId)} :
    \E req \in {Req(studentText, << >>, content, Null)} :
        IF user = Null THEN Answer(CoachResp(route, userId, req, 401, {}))
        ELSE IF user[1].role # "coach"
          THEN Answer(CoachResp(route, userId, req, 403, {}))
        ELSE IF ParseInt(studentText) = Null
          THEN Answer(CoachResp(route, userId, req, 400, {}))
        ELSE IF NoContent(content)
          THEN Answer(CoachResp(route, userId, req, 400, {}))
        ELSE IF ~ensureCoachAccess(user[1].id, IdOf(studentText))
          THEN Answer(CoachResp(route, userId, req, 403, {}))
        ELSE createComment(route, userId, req,
                 Comment("profile", IdOf(studentText), user[1].id, 0,
                         Trim(content[1])))

\* GET /students/:studentId/journals and GET /students/:studentId/matches
getList(route, field, allowedSorts, userId, studentText, sortText) ==
    \E user \in {getCurrentUser(userId)} :
    \E req \in {Req(studentText, << >>, Null, sortText)} :
    \E sort \in {IF sortText = Null \/ sortText = Some("") THEN "date-desc"
                 ELSE sortText[1]} :
        IF user = Null THEN Answer(CoachResp(route, userId, req, 401, {}))
        ELSE IF user[1].role # "coach"
          THEN Answer(CoachResp(route, userId, req, 403, {}))
        ELSE IF ParseInt(studentText) = Null
          THEN Answer(CoachResp(route, userId, req, 400, {}))
        ELSE IF sort \notin allowedSorts
          THEN Answer(CoachResp(route, userId, req, 400, {}))
        ELSE IF ~ensureCoachAccess(user[1].id, IdOf(studentText))
          THEN Answer(CoachResp(route, userId, req, 403, {}))
        ELSE Answer(CoachResp(route, userId, req, 200,
                 {db[field][k].id : k \in
                    {j \in 1..Len(db[field]) :
                       db[field][j].userId = IdOf(studentText)}}))

\* GET /students/:studentId/journals/:id and GET /students/:studentId/matches/:id
getEntry(route, field, userId, studentText, idText) ==
    \E user \in {getCurrentUser(userId)} :
    \E req \in {Req(studentText, idText, Null, Null)} :
        IF user = Null THEN Answer(CoachResp(route, userId, req, 401, {}))
        ELSE IF user[1].role # "coach"
          THEN Answer(CoachResp(route, userId, req, 403, {}))
        ELSE IF ParseInt(studentText) = Null \/ ParseInt(idText) = Null
          THEN Answer(CoachResp(route, userId, req, 400, {}))
        ELSE IF ~ensureCoachAccess(user[1].id, IdOf(studentText))
          THEN Answer(CoachResp(route, userId, req, 403, {}))
        ELSE IF ~hasEntry(db[field], IdOf(idText), IdOf(studentText))
          THEN Answer(CoachResp(route, userId, req, 404, {}))
        ELSE Answer(CoachResp(route, userId, req, 200, {IdOf(idText)}))

\* POST /students/:studentId/journals/:id/comments and
\* POST /students/:studentId/matches/:id/comments
postEntryComment(route, field, userId, studentText, idText, content) ==
    \E user \in {getCurrentUser(userId)} :
    \E req \in {Req(studentText, idText, content, Null)} :
        IF user = Null THEN Answer(CoachResp(route, userId, req, 401, {}))
        ELSE IF user[1].role # "coach"
          THEN Answer(CoachResp(route, userId, req, 403, {}))
        ELSE IF ParseInt(studentText) = Null \/ ParseInt(idText) = Null
          THEN Answer(CoachResp(route, userId, req, 400, {}))
        ELSE IF NoContent(content)
          THEN Answer(CoachResp(route, userId, req, 400, {}))
        ELSE IF ~ensureCoachAccess(user[1].id, IdOf(studentText))
          THEN Answer(CoachResp(route, userId, req, 403, {}))
        ELSE IF ~hasEntry(db[field], IdOf(idText), IdOf(studentText))
          THEN Answer(CoachResp(route, userId, req, 404, {}))
        ELSE createComment(route, userId, req,
                 Comment(field, IdOf(studentText), user[1].id, IdOf(idText),
                         Trim(content[1])))

getJournals ==
    \E userId \in CoachCallers : \E studentText \in StudentTexts :
    \E sortText \in Sorts :
        getList("GET /students/:studentId/journals", "journals", JournalSorts,
                userId, studentText, sortText)

getJournal ==
    \E userId \in CoachCallers : \E studentText \in StudentTexts :
    \E idText \in EntryTexts :
        getEntry("GET /students/:studentId/journals/:id", "journals",
                 userId, studentText, idText)

postJournalComment ==
    \E userId \in CoachCallers : \E studentText \in StudentTexts :
    \E idText \in EntryTexts : \E content \in Contents :
        postEntryComment("POST /students/:studentId/journals/:id/comments",
                         "journals", userId, studentText, idText, content)

getMatches ==
    \E userId \in CoachCallers : \E studentText \in StudentTexts :
    \E sortText \in Sorts :
        getList("GET /students/:studentId/matches", "matches", MatchSorts,
                userId, studentText, sortText)

getMatch ==
    \E userId \in CoachCallers : \E studentText \in StudentTexts :
    \E idText \in EntryTexts :
        getEntry("GET /students/:studentId/matches/:id", "matches",
                 userId, studentText, idText)

postMatchComment ==
    \E userId \in CoachCallers : \E studentText \in StudentTexts :
    \E idText \in EntryTexts : \E content \in Contents :
        postEntryComment("POST /students/:studentId/matches/:id/comments",
                         "matches", userId, studentText, idText, content)

\* the two students each hold a journal entry and a match; nobody is invited
CoachInit ==
    /\ FrontIdle
    /\ db = [EmptyDb EXCEPT
               !.journals = <<Row(1, 1, "j1"), Row(2, 4, "j2")>>,
               !.matches  = <<Row(1, 1, "m1"), Row(2, 4, "m2")>>]
    /\ resp = NoResp
    /\ calls = {}
    /\ posted = << >>

CoachNext ==
    \/ postInvite
    \/ acceptInvite
    \/ declineInvite
    \/ getStudents
    \/ getProfile
    \/ postProfileComment
    \/ getJournals
    \/ getJournal
    \/ postJournalComment
    \/ getMatches
    \/ getMatch
    \/ postMatchComment

SpecCoach == CoachInit /\ [][CoachNext]_vars

----------------------------------------------------------------------------
(* Accept and decline requests in flight: a handler gives way to the       *)
(* others at each await, so the lookup of the invite and its update are    *)
(* two steps                                                               *)

\* most accept and decline requests that reach the update in one run
MaxAnswers == 2

\* a handler up to the end of findFirst and the tests that follow it
answerFind(route, status, userId, idText) ==
    \E user \in {getCurrentUser(userId)} : \E req \in {Req(<< >>, idText, Null, Null)} :
        IF user = Null THEN Answer(CoachResp(route, userId, req, 401, {}))
        ELSE IF user[1].role # "coach"
          THEN Answer(CoachResp(route, userId, req, 403, {}))
        ELSE IF ParseInt(idText) = Null
          THEN Answer(CoachResp(route, userId, req, 400, {}))
        ELSE IF ~\E k \in 1..Len(db.invites) :
                     /\ db.invites[k].id = IdOf(idText)
                     /\ db.invites[k].coachEmail = user[1].email
          THEN Answer(CoachResp(route, userId, req, 404, {}))
        ELSE IF db.invites[IdOf(idText)].status # "pending"
          THEN Answer(CoachResp(route, userId, req, 400, {}))
        ELSE /\ Len(posted) < MaxAnswers
             /\ posted' = Append(posted, [route |-> route, userId |-> userId,
                                          id |-> IdOf(idText)])
             /\ calls' = calls \cup
                    {[n |-> Len(posted) + 1, route |-> route, status |-> status,
                      userId |-> userId, idText |-> idText]}
             /\ UNCHANGED <<frontVars, db, resp>>

acceptFind ==
    \E userId \in CoachCallers : \E idText \in IdTexts :
        answerFind("POST /invites/:id/accept", "accepted", userId, idText)

declineFind ==
    \E userId \in CoachCallers : \E idText \in IdTexts :
        answerFind("POST /invites/:id/decline", "declined", userId, idText)

\* coachInvite.update({ where: { id }, data: { status, coachId } }) and the
\* response
answerUpdate ==
    /\ \E c \in calls :
         /\ calls' = calls \ {c}
         /\ db' = [db EXCEPT !.invites[IdOf(c.idText)] =
                      [@ EXCEPT !.status = c.status, !.coachId = c.userId]]
         /\ resp' = CoachResp(c.route, c.userId, Req(<< >>, c.idText, Null, Null),
                              200, {IdOf(c.idText)})
    /\ UNCHANGED <<frontVars, posted>>

RaceInit == CoachInit

RaceNext ==
    \/ postInvite
    \/ acceptFind
    \/ declineFind
    \/ answerUpdate

SpecRace == RaceInit /\ [][RaceNext]_vars

----------------------------------------------------------------------------
(* Properties of validateSet, checked under SpecSet *)

\* the call under test has returned
SetCalled == vsResult # Null

\* the (max, min) pairs of a set that ends without a tiebreak
LegalPlainShapes == {<<6, 0>>, <<6, 1>>, <<6, 2>>, <<6, 3>>, <<6, 4>>, <<7, 5>>}

ShapeOf(u, o) == IF u >= o THEN <<u, o>> ELSE <<o, u>>

\* C1: with both game counts in 0..7 and no tiebreak fields, validateSet
\* returns no error exactly when (max, min) is one of (6,0), (6,1), (6,2),
\* (6,3), (6,4), (7,5).
C1_LegalPlainSets ==
    (/\ SetCalled
     /\ vsArgs.userGames \in 0..7 /\ vsArgs.oppGames \in 0..7
     /\ vsArgs.userTb = Null /\ vsArgs.oppTb = Null)
    => (vsResult[1] = NoError
          <=> ShapeOf(vsArgs.userGames, vsArgs.oppGames) \in LegalPlainShapes)

C1_Witness ==
    /\ SetCalled
    /\ vsArgs.userGames = 5 /\ vsArgs.oppGames = 7
    /\ vsArgs.userTb = Null /\ vsArgs.oppTb = Null
    /\ vsResult[1] = NoError

\* tiebreak points of the side that won / lost a 7-6 set
WinnerPoints(a) == IF a.userGames > a.oppGames THEN a.userTb[1] ELSE a.oppTb[1]
LoserPoints(a)  == IF a.userGames > a.oppGames THEN a.oppTb[1] ELSE a.userTb[1]

\* C2: for a 7-6 or 6-7 set validateSet returns an error when a tiebreak
\* field is missing; with both given as non-negative integers it returns no
\* error iff the set winner's points w and the loser's points l satisfy
\* w >= 7 and w - l >= 2.
C2_TiebreakRule ==
    (SetCalled /\ ShapeOf(vsArgs.userGames, vsArgs.oppGames) = <<7, 6>>)
    => /\ (vsArgs.userTb = Null \/ vsArgs.oppTb = Null) => vsResult[1] # NoError
       /\ (/\ vsArgs.userTb # Null /\ vsArgs.oppTb # Null
           /\ vsArgs.userTb[1] >= 0 /\ vsArgs.oppTb[1] >= 0)
          => (vsResult[1] = NoError
                <=> (/\ WinnerPoints(vsArgs) >= 7
                     /\ WinnerPoints(vsArgs) - LoserPoints(vsArgs) >= 2))

C2_Witness ==
    /\ SetCalled
    /\ vsArgs.userGames = 6 /\ vsArgs.oppGames = 7
    /\ vsArgs.userTb = Some(6) /\ vsArgs.oppTb = Some(8)
    /\ vsResult[1] = NoError

\* C3: for equal game counts in 0..7 validateSet returns the "set score
\* cannot be tied" error of that set, whatever the tiebreak fields hold.
C3_TiedRejected ==
    (/\ SetCalled
     /\ vsArgs.userGames = vsArgs.oppGames
     /\ vsArgs.userGames \in 0..7)
    => vsResult[1] = Msg(vsArgs.setIndex + 1, TiedText, << >>)

C3_Witness ==
    /\ SetCalled
    /\ vsArgs.userGames = 6 /\ vsArgs.oppGames = 6
    /\ vsArgs.userTb = Some(7) /\ vsArgs.oppTb = Some(5)
    /\ vsResult[1].text = TiedText

\* the rules of validateSet, each as a test of the arguments on its own
Is76(a) == ShapeOf(a.userGames, a.oppGames) = <<7, 6>>
BothTb(a) == a.userTb # Null /\ a.oppTb # Null

RuleBroken(a) ==
    << a.userGames \notin 0..7 \/ a.oppGames \notin 0..7,
       a.userGames = a.oppGames,
       ShapeOf(a.userGames, a.oppGames) \notin LegalPlainShapes \cup {<<7, 6>>},
       Is76(a) /\ ~BothTb(a),
       Is76(a) /\ BothTb(a) /\ (a.userTb[1] < 0 \/ a.oppTb[1] < 0),
       Is76(a) /\ BothTb(a) /\ WinnerPoints(a) < 7,
       Is76(a) /\ BothTb(a) /\ WinnerPoints(a) - LoserPoints(a) < 2 >>

RuleText ==
    <<RangeText, TiedText, InvalidText, TbReqText, TbIntText, TbWinnerText, TbMarginText>>

\* C19: validateSet returns the error of the first broken rule in the order
\* range, tied, illegal shape, tiebreak points missing, tiebreak points
\* negative, set winner's tiebreak points below 7, margin below 2, with the
\* label of the set; it returns no error when no rule is broken.
C19_FirstBrokenRule ==
    SetCalled =>
        LET broken == RuleBroken(vsArgs)
            hits   == {i \in 1..7 : broken[i]}
        IN  IF hits = {}
              THEN vsResult[1] = NoError
              ELSE /\ vsResult[1].label = vsArgs.setIndex + 1
                   /\ \E i \in hits :
                          /\ \A j \in hits : i <= j
                          /\ vsResult[1].text = RuleText[i]

\* 8-8 breaks the range rule and the tied rule: the range error is returned
C19_Witness ==
    /\ SetCalled
    /\ vsArgs.userGames = 8 /\ vsArgs.oppGames = 8
    /\ vsResult[1] = Msg(vsArgs.setIndex + 1, RangeText, << >>)

\* C20: a tiebreak score that validateSet accepts is one at which a tiebreak
\* ends: the set winner has exactly 7 points and the loser at most 5, or the
\* loser has at least 6 and the winner exactly 2 more.
C20_TiebreakCanEnd ==
    (SetCalled /\ Is76(vsArgs) /\ BothTb(vsArgs) /\ vsResult[1] = NoError)
    => \/ (WinnerPoints(vsArgs) = 7 /\ LoserPoints(vsArgs) <= 5)
       \/ (LoserPoints(vsArgs) >= 6
           /\ WinnerPoints(vsArgs) = LoserPoints(vsArgs) + 2)

\* validateSet(0, 7, 6, 9, 3) returns no error
C20_Accepted93 ==
    /\ SetCalled
    /\ vsArgs.userGames = 7 /\ vsArgs.oppGames = 6
    /\ vsArgs.userTb = Some(9) /\ vsArgs.oppTb = Some(3)
    /\ vsResult[1] = NoError

----------------------------------------------------------------------------
(* Properties of a submit, checked under SpecMatch and SpecScenario.       *)
(* They read the submitted form on their own terms: the rules of the       *)
(* design document, not the operators of handleSubmit.                     *)

Submitted == submitted # Null

\* the last submit sent a request / was refused with message m
Accepted == Submitted /\ scoreError = NoError /\ requests # << >>
Refused(m) == Submitted /\ scoreError = m
Sent == requests[Len(requests)].data

FormatMax(fd) == IF fd.format = "bo5" THEN 5 ELSE 3
Required(fd) == IF fd.format = "bo5" THEN 3 ELSE 2

IsBlank(text) == \A k \in 1..Len(text) : text[k] = " "
RowBlank(row) == IsBlank(row.userGames) /\ IsBlank(row.oppGames)
RowFilled(row) == ~IsBlank(row.userGames) /\ ~IsBlank(row.oppGames)

\* the numbers a filled row holds
UG(row) == parseIntOrNull(row.userGames)[1]
OG(row) == parseIntOrNull(row.oppGames)[1]
UserWon(row) == UG(row) > OG(row)
IsTbRow(row) == ShapeOf(UG(row), OG(row)) = <<7, 6>>
RowWinnerTb(row) == parseIntOrNull(IF UserWon(row) THEN row.userTb ELSE row.oppTb)
RowLoserTb(row) == parseIntOrNull(IF UserWon(row) THEN row.oppTb ELSE row.userTb)

\* a row that is a legal set: a legal shape and, for 7-6, a finished tiebreak
RowValid(row) ==
    /\ RowFilled(row)
    /\ \/ ShapeOf(UG(row), OG(row)) \in LegalPlainShapes
       \/ /\ IsTbRow(row)
          /\ RowWinnerTb(row) # Null /\ RowLoserTb(row) # Null
          /\ RowLoserTb(row)[1] >= 0
          /\ RowWinnerTb(row)[1] >= 7
          /\ RowWinnerTb(row)[1] - RowLoserTb(row)[1] >= 2

\* rows 1..m are filled and valid, rows m+1 .. the format's maximum blank
ValidFilled(fd, m) ==
    /\ \A k \in (m + 1)..FormatMax(fd) : RowBlank(fd.sets[k])
    /\ \A k \in 1..m : RowFilled(fd.sets[k])
    /\ \A k \in 1..m : RowValid(fd.sets[k])

UserSets(fd, m) == Cardinality({k \in 1..m : UserWon(fd.sets[k])})
OppSets(fd, m) == m - UserSets(fd, m)

\* a side reaches the required count exactly at set m
DecidedAt(fd, m) ==
    \/ UserSets(fd, m) = Required(fd) /\ UserSets(fd, m - 1) = Required(fd) - 1
    \/ OppSets(fd, m) = Required(fd) /\ OppSets(fd, m - 1) = Required(fd) - 1

Outcome(fd, m) == IF UserSets(fd, m) = Required(fd) THEN "win" ELSE "loss"

\* C4: valid sets filled from set 1 on, one side reaching the required count
\* exactly at the last filled set, no explicit result: the submit is accepted
\* with result win iff the user is that side, and with the set counts equal
\* to the sets each side won.
C4_FinishedMatchAccepted ==
    Submitted =>
      \A m \in 1..FormatMax(submitted[1]) :
        (/\ ValidFilled(submitted[1], m)
         /\ DecidedAt(submitted[1], m)
         /\ submitted[1].result = "")
        => /\ Accepted
           /\ Sent.result = Outcome(submitted[1], m)
           /\ Sent.userSetsWon = UserSets(submitted[1], m)
           /\ Sent.opponentSetsWon = OppSets(submitted[1], m)

C4_Witness ==
    /\ submitted = Some([format |-> "bo3", result |-> "",
                         sets |-> <<GamesRow(6, 4), GamesRow(3, 6), GamesRow(6, 2),
                                    emptySet, emptySet>>])
    /\ Accepted
    /\ Sent.result = "win" /\ Sent.userSetsWon = 2 /\ Sent.opponentSetsWon = 1

\* a side has the required count after set j, before the last filled set m
DecidedBefore(fd, m, j) ==
    /\ j < m
    /\ \/ UserSets(fd, j) = Required(fd)
       \/ OppSets(fd, j) = Required(fd)

FourSixLove(fd) == \A k \in 1..4 : fd.sets[k] = GamesRow(6, 0)

\* C5 as stated: whenever a side's cumulative count reaches the required
\* count at some set and a further filled set follows, the submit is refused
\* with the "extra sets" message; in particular for 6-0, 6-0, 6-0, 6-0
\* under "bo3".
C5_ExtraSetsMessage ==
    Submitted =>
      /\ \A m \in 1..FormatMax(submitted[1]) :
           ValidFilled(submitted[1], m)
           => \A j \in 1..m :
                DecidedBefore(submitted[1], m, j) => Refused(Msg(0, ExtraText, << >>))
      /\ (submitted[1].format = "bo3" /\ FourSixLove(submitted[1]))
         => Refused(Msg(0, ExtraText, << >>))

MustEndMsg(fd) ==
    Msg(0, IF fd.format = "bo5" THEN MustEndText5 ELSE MustEndText3, Str(Required(fd)))

\* C5 amended: in that case the submit is refused, with the "extra sets"
\* message when a side ends with exactly the required count and with the
\* "match must end" message otherwise; 6-0, 6-0, 6-0, 6-0 under "bo3" gets
\* the "match must end" message.
C5_ExtraOrMustEnd ==
    Submitted =>
      /\ \A m \in 1..FormatMax(submitted[1]) :
           ValidFilled(submitted[1], m)
           => \A j \in 1..m :
                DecidedBefore(submitted[1], m, j)
                => /\ requests = << >>
                   /\ IF \/ UserSets(submitted[1], m) = Required(submitted[1])
                         \/ OppSets(submitted[1], m) = Required(submitted[1])
                        THEN Refused(Msg(0, ExtraText, << >>))
                        ELSE Refused(MustEndMsg(submitted[1]))
      /\ (submitted[1].format = "bo3" /\ FourSixLove(submitted[1]))
         => Refused(MustEndMsg(submitted[1]))

C5_Witness ==
    /\ Submitted
    /\ submitted[1].format = "bo3"
    /\ submitted[1].sets[1] = GamesRow(6, 0)
    /\ submitted[1].sets[2] = GamesRow(6, 0)
    /\ submitted[1].sets[3] = GamesRow(3, 6)
    /\ scoreError = Msg(0, ExtraText, << >>)

C5_WitnessMustEnd ==
    /\ Submitted
    /\ submitted[1].format = "bo3" /\ FourSixLove(submitted[1])
    /\ scoreError = MustEndMsg(submitted[1])

SetsAre643(fd) ==
    fd.sets = <<GamesRow(6, 4), GamesRow(6, 3), GamesRow(6, 3), emptySet, emptySet>>

\* C6 as stated: 6-4, 6-3, 6-3 with the result "loss" is refused with the
\* result-mismatch message naming win (whatever the format).
C6_MismatchAnyFormat ==
    (Submitted /\ SetsAre643(submitted[1]) /\ submitted[1].result = "loss")
    => Refused(Msg(0, MismatchText, <<"win">>))

\* C6 amended: under "bo5", 6-4, 6-3, 6-3 with the result "loss" is refused
\* with the result-mismatch message naming win; in general, when the filled
\* sets are valid and decide the match at the last of them and the explicit
\* result differs from the outcome they give, the submit is refused with the
\* result-mismatch message naming that outcome.
C6_MismatchNamesOutcome ==
    Submitted =>
      /\ (/\ SetsAre643(submitted[1]) /\ submitted[1].format = "bo5"
          /\ submitted[1].result = "loss")
         => Refused(Msg(0, MismatchText, <<"win">>))
      /\ \A m \in 1..FormatMax(submitted[1]) :
           (/\ ValidFilled(submitted[1], m)
            /\ DecidedAt(submitted[1], m)
            /\ submitted[1].result \notin {"", Outcome(submitted[1], m)})
           => /\ Refused(Msg(0, MismatchText, <<Outcome(submitted[1], m)>>))
              /\ requests = << >>

C6_Witness ==
    /\ Submitted /\ SetsAre643(submitted[1])
    /\ submitted[1].format = "bo5" /\ submitted[1].result = "loss"
    /\ scoreError = Msg(0, MismatchText, <<"win">>)

\* "6-4, 3-6, 7-6(4)"
Score_64_36_76_4 ==
    <<"6", "-", "4", ",", " ", "3", "-", "6", ",", " ", "7", "-", "6", "(", "4", ")">>

ScenarioForm(utb, otb) ==
    [format |-> "bo3", result |-> "",
     sets |-> <<GamesRow(6, 4), GamesRow(3, 6), TbRow(7, 6, utb, otb), emptySet, emptySet>>]

\* C7 as stated: (6,4), (3,6), (7,6) with the tiebreak fields (4,7) under
\* "bo3" is accepted, the user winning 2 sets, result win, score
\* "6-4, 3-6, 7-6(4)".
C7_ScenarioAsStated ==
    submitted = Some(ScenarioForm(4, 7))
    => /\ Accepted
       /\ Sent.userSetsWon = 2 /\ Sent.result = "win"
       /\ Sent.matchScore = Score_64_36_76_4

\* C7 amended: with the tiebreak fields (7,4), the user's 7 points first,
\* the submit is accepted, the user winning 2 sets, result win, score
\* "6-4, 3-6, 7-6(4)".
C7_ScenarioWinnerFirst ==
    submitted = Some(ScenarioForm(7, 4))
    => /\ Accepted
       /\ Sent.userSetsWon = 2 /\ Sent.opponentSetsWon = 1 /\ Sent.result = "win"
       /\ Sent.matchScore = Score_64_36_76_4

C7_Witness ==
    /\ submitted = Some(ScenarioForm(7, 4))
    /\ Accepted
    /\ Sent.matchScore = Score_64_36_76_4

\* the first blank row is e, and the first row after it that is not blank is j
FirstGap(fd, e, j) ==
    /\ e < j /\ j <= FormatMax(fd)
    /\ RowBlank(fd.sets[e])
    /\ \A k \in 1..(e - 1) : RowValid(fd.sets[k])
    /\ ~RowBlank(fd.sets[j])
    /\ \A k \in (e + 1)..(j - 1) : RowBlank(fd.sets[k])

RECURSIVE FilledFrom(_, _)
FilledFrom(fd, k) ==
    IF k <= FormatMax(fd) /\ RowFilled(fd.sets[k]) THEN 1 + FilledFrom(fd, k + 1) ELSE 0

FilledCount(fd) == FilledFrom(fd, 1)

\* what parsing the stored score of row k must give
ExpectedParsed(row) ==
    [userGames |-> UG(row), oppGames |-> OG(row),
     tbLoserPoints |-> IF IsTbRow(row) THEN RowLoserTb(row) ELSE Null]

\* C9: for every accepted submit, parsing the serialised score gives as many
\* sets as were filled, in order, each with the userGames and oppGames
\* entered, and tbLoserPoints equal to the set loser's tiebreak points for a
\* 7-6/6-7 set and absent for any other set.
C9_ScoreRoundTrip ==
    Accepted =>
      parseMatchScoreString(Sent.matchScore)
        = [k \in 1..FilledCount(submitted[1]) |-> ExpectedParsed(submitted[1].sets[k])]

C9_Witness ==
    /\ Accepted
    /\ submitted[1].sets[2] = TbRow(6, 7, 10, 12)
    /\ submitted[1].sets[3] = TbRow(7, 6, 7, 4)
    /\ Len(parseMatchScoreString(Sent.matchScore)) = 3
    /\ parseMatchScoreString(Sent.matchScore)[2].tbLoserPoints = Some(10)

\* C10: an accepted submit is a finished match: one side has won exactly the
\* required number of sets, the other fewer, the last filled set was won by
\* the match winner, and the number of filled sets lies between the required
\* count and the format's maximum.
C10_AcceptedIsFinished ==
    Accepted =>
      LET fd == submitted[1]
          m  == FilledCount(fd)
      IN  /\ Required(fd) <= m /\ m <= FormatMax(fd)
          /\ \/ /\ UserSets(fd, m) = Required(fd) /\ OppSets(fd, m) < Required(fd)
                /\ UserWon(fd.sets[m])
             \/ /\ OppSets(fd, m) = Required(fd) /\ UserSets(fd, m) < Required(fd)
                /\ ~UserWon(fd.sets[m])

C10_Witness ==
    /\ Accepted
    /\ submitted[1].format = "bo5"
    /\ FilledCount(submitted[1]) = 5
    /\ OppSets(submitted[1], 5) = 3
    /\ Sent.result = "loss"

\* a payload read on its own: the sets its score string holds
SetOk(ps) ==
    /\ ShapeOf(ps.userGames, ps.oppGames) \in LegalPlainShapes \cup {<<7, 6>>}
    /\ ps.tbLoserPoints # Null <=> ShapeOf(ps.userGames, ps.oppGames) = <<7, 6>>

PayloadOk(d, sets) ==
    /\ sets # << >>
    /\ \A k \in 1..Len(sets) : SetOk(sets[k])
    /\ d.userSetsWon = Cardinality({k \in 1..Len(sets) : sets[k].userGames > sets[k].oppGames})
    /\ d.opponentSetsWon
         = Cardinality({k \in 1..Len(sets) : sets[k].oppGames > sets[k].userGames})
    /\ d.result \in {"win", "loss"}
    /\ d.result = "win" <=> d.userSetsWon > d.opponentSetsWon

\* C11: every payload sent to createMatch or updateMatch is consistent: each
\* set of matchScore has a legal shape with a tiebreak suffix exactly on 7-6
\* and 6-7, the set counts are the sets each side won in matchScore, and the
\* result is win exactly when userSetsWon > opponentSetsWon.
C11_PayloadConsistent ==
    \A k \in 1..Len(requests) :
        PayloadOk(requests[k].data, parseMatchScoreString(requests[k].data.matchScore))

C11_Witness ==
    /\ requests # << >>
    /\ requests[1].data.result = "loss"
    /\ requests[1].data.opponentSetsWon = 2
    /\ \E k \in 1..Len(parseMatchScoreString(requests[1].data.matchScore)) :
          parseMatchScoreString(requests[1].data.matchScore)[k].tbLoserPoints # Null

\* the texts of the errors of one set, and of the errors of the whole match
SetTexts ==
    {GapText, BothReqText, RangeText, TiedText, InvalidText,
     TbReqText, TbIntText, TbWinnerText, TbMarginText}
MatchTexts == {NoSetText, MustEndText3, MustEndText5, ExtraText, MismatchText}

\* row k cannot stand where it is: it follows a blank row, or is no legal set
RowOffends(fd, k) ==
    /\ ~RowBlank(fd.sets[k])
    /\ \/ \E e \in 1..(k - 1) : RowBlank(fd.sets[e])
       \/ ~RowValid(fd.sets[k])

SubmitFailed == Submitted /\ scoreError # NoError

C13_WitnessMatchLevel ==
    /\ SubmitFailed
    /\ scoreError.label = 0
    /\ scoreError.text = NoSetText

----------------------------------------------------------------------------
(* Properties of the form under edits, checked under SpecForm *)

\* a step in which handleSubmit refuses the form it reads
SubmitFails ==
    /\ submitted' = Some(formData)
    /\ scoreError' # NoError
    /\ (submitted' # submitted \/ scoreError' # scoreError)

\* C12: a submit that fails validation sends no request, leaves the form
\* open with its data and the match being edited unchanged, shows the error
\* and leaves the saving flag false.  (That a corrected submit then succeeds
\* is the reachable state C12_Witness.)
C12_FailedSubmitKeepsForm ==
    [][SubmitFails =>
          /\ requests' = requests
          /\ matches' = matches
          /\ formData' = formData
          /\ showForm /\ showForm'
          /\ editingMatch' = editingMatch
          /\ scoreError'.text \in SetTexts \cup MatchTexts
          /\ saving' = FALSE]_vars

\* a submit was refused, then one field was corrected, then the submit sent
\* its request and the form closed
C12_Witness ==
    /\ everRefused
    /\ edits = 1
    /\ Len(requests) = 1
    /\ alertMsg = ""
    /\ ~showForm
    /\ submitted # Null /\ submitted[1].sets[1] = GamesRow(6, 4)

\* a submit was refused while a stored match was being edited
C12_WitnessEditing ==
    /\ everRefused
    /\ editingMatch # 0
    /\ showForm
    /\ scoreError # NoError

----------------------------------------------------------------------------
(* Properties of a submit with left-over fields, checked under SpecLeftover *)

\* the row is a 7-6 or 6-7 set
IsTbSet(row) == RowFilled(row) /\ IsTbRow(row)

\* the form with the tiebreak fields of every row that is no 7-6/6-7 set
\* cleared: two forms that differ only in those fields have the same one
ClearedTb(fd) ==
    [fd EXCEPT !.sets = [k \in 1..5 |->
        IF IsTbSet(fd.sets[k]) THEN fd.sets[k]
        ELSE [fd.sets[k] EXCEPT !.userTb = << >>, !.oppTb = << >>]]]

\* what the last submit came to: its error, and the data it sent
Observed ==
    [err |-> scoreError, data |-> IF scoreError = NoError THEN Sent ELSE NoData]

\* number of opening parentheses in a text
Parens(text) == Cardinality({i \in 1..Len(text) : text[i] = "("})

\* C22: the tiebreak fields of a set that is not 7-6/6-7 have no influence:
\* every submit comes to the error, the outcome and the score string of the
\* same form with those fields cleared, and the score string has a tiebreak
\* suffix for the 7-6/6-7 sets only.
C22_LeftoverTbIgnored ==
    Submitted =>
      /\ Observed = buildMatchData(ClearedTb(submitted[1]))
      /\ Accepted =>
           Parens(Sent.matchScore)
             = Cardinality({k \in 1..FilledCount(submitted[1]) :
                              IsTbSet(submitted[1].sets[k])})

\* 6-4 twice, the second time with 7 and 5 left in the tiebreak fields, is
\* sent as "6-4, 6-4"
C22_Witness ==
    /\ Accepted
    /\ submitted[1].sets[1] = GamesRow(6, 4)
    /\ submitted[1].sets[2] = TbRow(6, 4, 7, 5)
    /\ Sent.matchScore = <<"6", "-", "4", ",", " ", "6", "-", "4">>
    /\ Sent.userSetsWon = 2

\* a refused submit with left-over fields: the empty row holding a tiebreak
\* number still counts as a gap
C22_WitnessGap ==
    /\ Refused(Msg(2, GapText, << >>))
    /\ submitted[1].sets[1].userTb = Str(3)
    /\ submitted[1].sets[1].userGames = << >>
    /\ submitted[1].sets[2] = TbRow(6, 4, 7, 5)

----------------------------------------------------------------------------
(* The order of the errors of a submit, checked under SpecFreeText *)

\* exactly one of the two game fields of the row is filled
RowHalf(row) == IsBlank(row.userGames) # IsBlank(row.oppGames)

\* the problem of row k on its own terms: it follows a blank row, it has one
\* game count only, or validateSet refuses it; NoError when it has none
SetProblem(fd, k) ==
    IF RowBlank(fd.sets[k]) THEN NoError
    ELSE IF \E e \in 1..(k - 1) : RowBlank(fd.sets[e]) THEN Msg(k, GapText, << >>)
    ELSE IF RowHalf(fd.sets[k]) THEN Msg(k, BothReqText, << >>)
    ELSE validateSet(k - 1, UG(fd.sets[k]), OG(fd.sets[k]),
                     parseIntOrNull(fd.sets[k].userTb), parseIntOrNull(fd.sets[k].oppTb))

ProblemSets(fd) == {k \in 1..FormatMax(fd) : SetProblem(fd, k) # NoError}

\* C24: the error of a submit is the problem of the lowest set that has one
\* (out of order, one game count only, or refused by validateSet); the
\* errors about the whole match are given only when no set within the
\* format's maximum has a problem.
C24_SetErrorsFirst ==
    Submitted =>
      IF ProblemSets(submitted[1]) # {}
        THEN \E k \in ProblemSets(submitted[1]) :
               /\ \A j \in ProblemSets(submitted[1]) : k <= j
               /\ scoreError = SetProblem(submitted[1], k)
        ELSE scoreError # NoError =>
               scoreError.label = 0 /\ scoreError.text \in MatchTexts

\* set 1 has a letter as its only game count, sets 2 and 3 are 6-4: the
\* submit is refused for a gap at set 2, and set 1 is not reported
C24_LetterCountsAsEmpty ==
    /\ Refused(Msg(2, GapText, << >>))
    /\ submitted[1].sets[1].userGames = <<"x">>
    /\ submitted[1].sets[1].oppGames = << >>
    /\ submitted[1].sets[2] = GamesRow(6, 4)
    /\ submitted[1].sets[3] = GamesRow(6, 4)

\* 6-4, 6-4 and a third set with a letter as its only game count is sent
C24_LetterSetAccepted ==
    /\ Accepted
    /\ submitted[1].format = "bo3"
    /\ submitted[1].sets[1] = GamesRow(6, 4)
    /\ submitted[1].sets[2] = GamesRow(6, 4)
    /\ submitted[1].sets[3].userGames = <<"x">>
    /\ Sent.matchScore = <<"6", "-", "4", ",", " ", "6", "-", "4">>

----------------------------------------------------------------------------
(* The form without sets, checked under SpecFreeText *)

\* C25: when every row within the format's maximum has both game fields
\* blank, the submit is refused with 'Please enter at least one set score.',
\* whatever the result selector, the tiebreak fields and the rows beyond the
\* maximum hold.
C25_NoSetEntered ==
    (Submitted /\ \A k \in 1..FormatMax(submitted[1]) : RowBlank(submitted[1].sets[k]))
      => Refused(Msg(0, NoSetText, << >>))

\* three blank rows, one of them holding a space and a tiebreak number, the
\* result set to win, and a 6-4 beyond the maximum
C25_Witness ==
    /\ Refused(Msg(0, NoSetText, << >>))
    /\ submitted[1].format = "bo3"
    /\ submitted[1].result = "win"
    /\ submitted[1].sets[1] = emptySet
    /\ submitted[1].sets[2].userGames = <<" ">> /\ submitted[1].sets[2].userTb = Str(3)
    /\ submitted[1].sets[3] = emptySet
    /\ submitted[1].sets[4] = GamesRow(6, 4)

----------------------------------------------------------------------------
(* Properties of the rows beyond the format, checked under SpecMatch *)

\* the form with its 4th and 5th row empty
FirstThree(fd) == [fd EXCEPT !.sets[4] = emptySet, !.sets[5] = emptySet]

\* C23: under best of 3 a submit comes to the error, the outcome and the
\* score string of the same form with the 4th and 5th row empty, whatever
\* those rows hold.
C23_BestOf3ReadsThreeRows ==
    (Submitted /\ submitted[1].format = "bo3") =>
      Observed = buildMatchData(FirstThree(submitted[1]))

\* 6-4, 6-4 under best of 3 is sent although row 4 holds a 7-6 set with a
\* lost tiebreak and row 5 a single game count
C23_Witness ==
    /\ Accepted
    /\ submitted[1].format = "bo3"
    /\ submitted[1].sets[1] = GamesRow(6, 4)
    /\ submitted[1].sets[2] = GamesRow(6, 4)
    /\ submitted[1].sets[3] = emptySet
    /\ submitted[1].sets[4] = TbRow(7, 6, 4, 7)
    /\ submitted[1].sets[5].oppGames = << >> /\ submitted[1].sets[5].userGames = Str(6)
    /\ Sent.matchScore = <<"6", "-", "4", ",", " ", "6", "-", "4">>

----------------------------------------------------------------------------
(* Properties of editing a stored match, checked under SpecRoundTrip, where *)
(* nothing is typed between handleEdit and the next submit                  *)

\* the stored data of the match being edited
EditedData == (CHOOSE k \in 1..Len(matches) : matches[k].id = editingMatch)

\* a step in which handleSubmit reads the form handleEdit has loaded and
\* either refuses it or sends a request
ResubmitStep ==
    /\ editingMatch # 0
    /\ submitted' = Some(formData)
    /\ (scoreError' # NoError \/ requests' # requests)

\* C18: a stored match loaded into the form and submitted unchanged is
\* accepted, and the request carries the stored score string, set counts and
\* result.
C18_EditResubmitIdentical ==
    [][ResubmitStep =>
          /\ scoreError' = NoError
          /\ Len(requests') = Len(requests) + 1
          /\ requests'[Len(requests')].op = "updateMatch"
          /\ requests'[Len(requests')].data = matches[EditedData].data]_vars

\* a best-of-5 match won 6-4, 6-4, 6-4 is stored, loaded as best of 3 and
\* refused on the unchanged resubmit
C18_StraightSetsRefused ==
    /\ Len(matches) = 1
    /\ matches[1].data.userSetsWon = 3 /\ matches[1].data.opponentSetsWon = 0
    /\ editingMatch = 1
    /\ formData.format = "bo3"
    /\ submitted = Some(formData)
    /\ scoreError = Msg(0, MustEndText3, Str(2))

\* a match with tiebreak sets is loaded and resubmitted with the same data
C18_TiebreakResubmitted ==
    /\ Len(requests) = 2
    /\ requests[2].op = "updateMatch"
    /\ requests[2].data = requests[1].data
    /\ \E k \in 1..Len(parseMatchScoreString(requests[1].data.matchScore)) :
          parseMatchScoreString(requests[1].data.matchScore)[k].tbLoserPoints = Some(7)

\* the tiebreak points row k of the loaded form holds for the set's winner
\* and for its loser, the sides being those of the submitted row
LoadedWinnerTb(k) ==
    parseIntOrNull(IF UserWon(submitted[1].sets[k]) THEN formData.sets[k].userTb
                   ELSE formData.sets[k].oppTb)

LoadedLoserTb(k) ==
    parseIntOrNull(IF UserWon(submitted[1].sets[k]) THEN formData.sets[k].oppTb
                   ELSE formData.sets[k].userTb)

\* the form holds a stored match, loaded by handleEdit from what the last
\* accepted submit stored
LoadedBack == editingMatch # 0 /\ Submitted /\ showForm

\* C21: in the form loaded from a stored match, every tiebreak set holds the
\* loser's tiebreak points as entered and max(7, loser + 2) for the side that
\* won the set; the winner's points are those entered iff the entered points
\* were max(7, loser + 2).
C21_TiebreakReconstructed ==
    LoadedBack =>
      \A k \in 1..FilledCount(submitted[1]) :
        IsTbRow(submitted[1].sets[k]) =>
          /\ formData.sets[k].userGames = Str(UG(submitted[1].sets[k]))
          /\ formData.sets[k].oppGames = Str(OG(submitted[1].sets[k]))
          /\ LoadedLoserTb(k) = RowLoserTb(submitted[1].sets[k])
          /\ LoadedWinnerTb(k) = Some(Max(7, RowLoserTb(submitted[1].sets[k])[1] + 2))
          /\ (LoadedWinnerTb(k) = RowWinnerTb(submitted[1].sets[k]))
               <=> (RowWinnerTb(submitted[1].sets[k])[1]
                      = Max(7, RowLoserTb(submitted[1].sets[k])[1] + 2))

\* a set lost 6-7 with 3-9 in the tiebreak has been stored and is loaded as
\* 3-7, next to a set won 7-6 (9-7) that is loaded as entered
C21_Witness ==
    /\ LoadedBack
    /\ editingMatch = 1
    /\ requests # << >>
    /\ submitted[1].sets[1] = TbRow(6, 7, 3, 9)
    /\ formData.sets[1] = TbRow(6, 7, 3, 7)
    /\ submitted[1].sets[2] = TbRow(7, 6, 9, 7)
    /\ formData.sets[2] = TbRow(7, 6, 9, 7)

----------------------------------------------------------------------------
(* Properties of update and delete, checked under SpecOwner *)

RowsOf(table) == {table[k] : k \in 1..Len(table)}

\* the table a route works on
TableOf(d, r) == IF r.route \in {"PUT /matches/:id", "DELETE /matches/:id"}
                   THEN d.matches ELSE d.journals

\* C16: a step of an update or delete request changes or removes only rows
\* that have the requested id and belong to the requesting user, and then
\* answers 200; when the id names no row of the requesting user, the answer
\* is 404 and every table is as before.
C16_OnlyOwnRows ==
    [][/\ \A r \in (RowsOf(db.matches) \cup RowsOf(db.journals))
                    \ (RowsOf(db'.matches) \cup RowsOf(db'.journals)) :
            /\ r.userId = resp'.user
            /\ r.id = resp'.id
            /\ r \in RowsOf(TableOf(db, resp'))
            /\ resp'.status = 200
       /\ (/\ resp'.user # 0 /\ resp'.id # 0
           /\ ~\E r \in RowsOf(TableOf(db, resp')) :
                  r.id = resp'.id /\ r.userId = resp'.user)
          => (resp'.status = 404 /\ db' = db)]_vars

\* user 2 asked to delete match 1 of user 1: 404, and the match is there
C16_Witness ==
    /\ resp = Resp("DELETE /matches/:id", 2, 0, 1, 404, << >>)
    /\ \E r \in RowsOf(db.matches) : r.id = 1 /\ r.userId = 1
    /\ Len(db.journals) = 1

\* user 1 has updated their own journal entry
C16_WitnessUpdated ==
    /\ resp = Resp("PUT /journal/:id", 1, 0, 1, 200, << >>)
    /\ Row(1, 1, "a") \in RowsOf(db.journals)

----------------------------------------------------------------------------
(* Properties of the UTR history, checked under SpecUtr *)

\* the ratings of a user's history entries, oldest first
RECURSIVE HistoryOf(_, _)
HistoryOf(history, u) ==
    IF history = << >> THEN << >>
    ELSE HistoryOf(SubSeq(history, 1, Len(history) - 1), u)
         \o (IF history[Len(history)].userId = u
               THEN <<history[Len(history)].rating>> ELSE << >>)

\* the finite ratings a user has posted, each one equal to its predecessor
\* left out
RECURSIVE Changes(_, _)
Changes(log, u) ==
    IF log = << >> THEN << >>
    ELSE LET before == Changes(SubSeq(log, 1, Len(log) - 1), u)
             p      == log[Len(log)]
         IN  IF p.userId # u \/ p.utrRating.type # "number" \/ ~p.utrRating.finite
               THEN before
             ELSE IF before # << >> /\ before[Len(before)] = p.utrRating.tenths
               THEN before
             ELSE Append(before, p.utrRating.tenths)

\* every update so far was received while no other was in flight, and all
\* have been answered
Sequential == calls = {} /\ \A k \in 1..Len(posted) : posted[k].alone

\* the rating of call c is a finite number that differs from the entry seen
ShouldCreate(c, seen) ==
    /\ c.rating # Null
    /\ c.rating[1].finite
    /\ (seen = Null \/ seen[1] # c.rating[1].tenths)

\* the step in which call c of recordUtrHistoryIfChanged returns
Returns(c) ==
    /\ c \in calls
    /\ ~\E d \in calls' : d.n = c.n

\* the newest entry of user u, Null when there is none
NewestOf(u) ==
    IF HistoryOf(db.utrHistory, u) = << >> THEN Null
    ELSE Some(HistoryOf(db.utrHistory, u)[Len(HistoryOf(db.utrHistory, u))])

\* call c goes on as d once its findFirst is answered
Finds(c, d) == c.pc = "find" /\ d.n = c.n /\ d.pc = "create"

\* what findFirst has given a call that returns in this step
SeenBy(c) == IF c.pc = "create" THEN c.latest ELSE NewestOf(c.userId)

\* C17: findFirst gives a call the newest entry of its user; the call
\* returns true and appends exactly one entry (user, rating) iff the rating
\* is non-null and finite and either no entry was found or the rating
\* differs from it, otherwise it returns false and the history is unchanged;
\* so updates made one after the other leave each user's history equal to
\* the finite ratings posted with repetitions dropped.
C17_RecordIfChanged ==
    /\ [](Sequential =>
            \A u \in 1..2 : HistoryOf(db.utrHistory, u) = Changes(posted, u))
    /\ [][\A c \in calls :
            /\ \A d \in calls' : Finds(c, d) => d.latest = NewestOf(c.userId)
            /\ Returns(c) =>
                 /\ resp'.id = c.n
                 /\ resp'.body[1].returned = ShouldCreate(c, SeenBy(c))
                 /\ db'.utrHistory =
                      IF ShouldCreate(c, SeenBy(c))
                        THEN Append(db.utrHistory,
                                    [userId |-> c.userId, rating |-> c.rating[1].tenths])
                        ELSE db.utrHistory]_vars

\* updates 7.1, 7.1, 7.4 of user 1, one after the other: history [7.1, 7.4]
C17_Witness ==
    /\ Sequential
    /\ Len(posted) = 3
    /\ \A k \in 1..3 : posted[k].userId = 1
    /\ posted[1].utrRating = JsNumber(71)
    /\ posted[2].utrRating = JsNumber(71)
    /\ posted[3].utrRating = JsNumber(74)
    /\ HistoryOf(db.utrHistory, 1) = <<71, 74>>
    /\ resp.body = <<[returned |-> TRUE, rating |-> Some(JsNumber(74)), latest |-> Some(71)]>>

\* two overlapping updates of user 1 with rating 7.1 have both been recorded
C17_OverlapRecordedTwice ==
    /\ calls = {}
    /\ Len(posted) = 2
    /\ ~posted[2].alone
    /\ HistoryOf(db.utrHistory, 1) = <<71, 71>>

----------------------------------------------------------------------------
(* Properties of the coach routes, checked under SpecCoach *)

\* an invite of student s that coach c has accepted
HasAccepted(c, s) ==
    \E k \in 1..Len(db.invites) :
        db.invites[k] \in [id : {k}, studentId : {s}, coachId : {c},
                           coachEmail : {Users[c].email}, status : {"accepted"}]

Coaches == {2, 3}

Students == {1, 4}

ListRoutes == {"GET /students/:studentId/journals", "GET /students/:studentId/matches"}

EntryRoutes ==
    {"GET /students/:studentId/journals/:id", "GET /students/:studentId/matches/:id"}

CommentRoutes ==
    {"POST /students/:studentId/profile/comments",
     "POST /students/:studentId/journals/:id/comments",
     "POST /students/:studentId/matches/:id/comments"}

DataRoutes ==
    {"GET /students/:studentId/profile"} \cup ListRoutes \cup EntryRoutes \cup CommentRoutes

\* the last response answers coach c asking for the data of student s
Asked(c, s) ==
    /\ resp.route \in DataRoutes
    /\ resp.user = c
    /\ resp.student = s

TheReq == resp.body[1].req

\* the request names an entry by a text that is no number, carries no
\* comment text, or asks for a sort the list does not know
Malformed ==
    \/ resp.route \in EntryRoutes \cup (CommentRoutes \ {"POST /students/:studentId/profile/comments"})
       /\ TheReq[2] = <<"x">>
    \/ resp.route \in CommentRoutes /\ TheReq[3] \in {Null, Some(<<" ">>)}
    \/ resp.route \in ListRoutes /\ TheReq[4] = Some("bogus")
    \/ resp.route = "GET /students/:studentId/matches" /\ TheReq[4] = Some("title-asc")

\* every stored comment was written by a coach the student had accepted
CommentsByAccepted ==
    \A k \in 1..Len(db.comments) :
        HasAccepted(db.comments[k].coachId, db.comments[k].studentId)

\* C14 as stated: a coach's request for a student's data succeeds only with
\* an accepted invite of that student for that coach; without one it is
\* refused with 403, and no comment is stored.
C14_RefusedWith403 ==
    /\ CommentsByAccepted
    /\ \A c \in Coaches : \A s \in Students :
         Asked(c, s) =>
           /\ resp.status \in {200, 201} => HasAccepted(c, s)
           /\ ~HasAccepted(c, s) => resp.status = 403

\* C14 amended: a coach's request for a student's data succeeds only with an
\* accepted invite of that student for that coach, and no comment is stored
\* without one; without one the request is refused with 400 when it is
\* malformed (the parameters are checked first) and with 403 otherwise.
C14_OnlyWithAcceptedInvite ==
    /\ CommentsByAccepted
    /\ \A c \in Coaches : \A s \in Students :
         Asked(c, s) =>
           /\ resp.status \in {200, 201} => HasAccepted(c, s)
           /\ ~HasAccepted(c, s) => resp.status = IF Malformed THEN 400 ELSE 403
           /\ ~HasAccepted(c, s) => resp.body[1].data = {}

\* coach 3, whom student 1 has not accepted, is refused a well-formed comment
\* on the journal entry that coach 2 may read
C14_Witness ==
    /\ Asked(3, 1)
    /\ resp.route = "POST /students/:studentId/journals/:id/comments"
    /\ ~Malformed
    /\ resp.status = 403
    /\ HasAccepted(2, 1)
    /\ ~HasAccepted(3, 1)

\* a coach without an accepted invite is answered 400, not 403
C14_Refused400 ==
    \E c \in Coaches : \E s \in Students :
        Asked(c, s) /\ ~HasAccepted(c, s) /\ resp.status = 400

\* C15: once a student has invited a registered coach by e-mail and that
\* coach has accepted the pending invite, the coach's student list holds the
\* student, and the coach's requests for the student's profile and for a
\* comment on it succeed.
C15_AcceptedCoachSeesStudent ==
    /\ resp.route = "POST /invites" /\ resp.status = 201 =>
         /\ db.invites[Len(db.invites)].status = "pending"
         /\ db.invites[Len(db.invites)].studentId = resp.user
    /\ resp.route = "POST /invites/:id/accept" /\ resp.status = 200 =>
         HasAccepted(resp.user, db.invites[resp.id].studentId)
    /\ \A c \in Coaches : \A s \in Students :
         HasAccepted(c, s) =>
           /\ resp.route = "GET /students" /\ resp.user = c =>
                resp.status = 200 /\ s \in resp.body[1].data
           /\ resp.route = "GET /students/:studentId/profile" /\ Asked(c, s) =>
                resp.status = 200 /\ resp.body[1].data = {s}
           /\ /\ resp.route = "POST /students/:studentId/profile/comments"
              /\ Asked(c, s)
              /\ TheReq[3] \notin {Null, Some(<<" ">>)}
              => /\ resp.status = 201
                 /\ db.comments[Len(db.comments)] =
                      [kind |-> "profile", studentId |-> s, coachId |-> c,
                       entryId |-> 0, content |-> <<"o", "k">>]

\* coach 2, invited by student 1 and having accepted, has added a profile comment
C15_Witness ==
    /\ HasAccepted(2, 1)
    /\ Asked(2, 1)
    /\ resp.route = "POST /students/:studentId/profile/comments"
    /\ resp.status = 201

\* coach 2 has accepted and finds student 1 in the student list
C15_WitnessListed ==
    /\ resp.route = "GET /students"
    /\ resp.status = 200
    /\ resp.user = 2
    /\ resp.body[1].data = {1}

----------------------------------------------------------------------------
(* Properties of parseMatchScoreString, checked under SpecParse *)

AllDigits(t) == t # << >> /\ \A k \in 1..Len(t) : IsDigit(t[k])

\* the places at which a token of the form games-games has its hyphen, and
\* one of the form games-games(number) its opening parenthesis
HyphenOf(t) ==
    {d \in 2..(Len(t) - 1) :
        /\ t[d] = "-"
        /\ AllDigits(SubSeq(t, 1, d - 1))
        /\ \/ AllDigits(SubSeq(t, d + 1, Len(t)))
           \/ \E p \in (d + 2)..(Len(t) - 2) :
                 /\ t[p] = "(" /\ t[Len(t)] = ")"
                 /\ AllDigits(SubSeq(t, d + 1, p - 1))
                 /\ AllDigits(SubSeq(t, p + 1, Len(t) - 1))}

WellFormed(t) == HyphenOf(t) # {}

\* the set a well-formed token stands for
SetOfToken(t) ==
    LET d == CHOOSE d \in HyphenOf(t) : TRUE
        p == IF t[Len(t)] = ")" THEN CHOOSE p \in 1..Len(t) : t[p] = "(" ELSE Len(t) + 1
    IN  [userGames |-> DigitsValue(SubSeq(t, 1, d - 1)),
         oppGames  |-> DigitsValue(SubSeq(t, d + 1, p - 1)),
         tbLoserPoints |-> IF p > Len(t) THEN Null
                           ELSE Some(DigitsValue(SubSeq(t, p + 1, Len(t) - 1)))]

\* the sets of the well-formed tokens, in the order of the tokens
RECURSIVE SetsOfTokens(_)
SetsOfTokens(tokens) ==
    IF tokens = << >> THEN << >>
    ELSE (IF WellFormed(Head(tokens)) THEN <<SetOfToken(Head(tokens))>> ELSE << >>)
         \o SetsOfTokens(Tail(tokens))

\* C26: parseMatchScoreString returns the sets of exactly the well-formed
\* tokens of the score, in their order, and drops every other token; a null
\* or empty score gives the empty sequence; every score gets an answer.
C26_WellFormedTokensKept ==
    scoreSets # Null =>
      /\ scoreSets[1] = SetsOfTokens(scoreArg.tokens)
      /\ (scoreArg.text = Null \/ scoreArg.text = Some(<< >>)) => scoreSets[1] = << >>

\* "6-4x 7-6(5)": the first token is dropped, the second kept
C26_Witness ==
    /\ scoreArg.tokens = <<<<"6", "-", "4", "x">>, <<"7", "-", "6", "(", "5", ")">>>>
    /\ scoreArg.text = Some(<<"6", "-", "4", "x", " ", "7", "-", "6", "(", "5", ")">>)
    /\ scoreSets = Some(<<[userGames |-> 7, oppGames |-> 6, tbLoserPoints |-> Some(5)]>>)

\* a null score has been parsed to the empty sequence
C26_WitnessNull ==
    scoreArg.text = Null /\ scoreSets = Some(<< >>)

----------------------------------------------------------------------------
(* Properties of shouldShowTiebreak, checked under SpecShow *)

\* both game counts of the row are present
CountsPresent(row) ==
    parseIntOrNull(row.userGames) # Null /\ parseIntOrNull(row.oppGames) # Null

\* the row is 7-6 in either order, or 6-6
TiebreakShape(row) ==
    /\ CountsPresent(row)
    /\ \/ {UG(row), OG(row)} = {6, 7}
       \/ (UG(row) = 6 /\ OG(row) = 6)

\* what validateSet says about the tiebreak points of a set
TiebreakTexts == {TbReqText, TbIntText, TbWinnerText, TbMarginText}

\* C27: the tiebreak fields of a rendered row are shown exactly when both
\* game counts are present and the pair is 7-6 in either order or 6-6; so
\* they are shown for every set whose tiebreak points validateSet asks for.
C27_TiebreakFieldsShown ==
    /\ \A idx \in 0..(FormatMax(formData) - 1) :
          shouldShowTiebreak(formData, idx) <=> TiebreakShape(formData.sets[idx + 1])
    /\ (Submitted /\ scoreError # NoError /\ scoreError.text \in TiebreakTexts)
          => shouldShowTiebreak(submitted[1], scoreError.label - 1)

\* tiebreak points were typed into the shown fields of a 6-6 row
C27_Witness ==
    /\ edits = 1
    /\ formData.sets[1].userGames = Str(6) /\ formData.sets[1].oppGames = Str(6)
    /\ formData.sets[1].userTb = Str(5)
    /\ shouldShowTiebreak(formData, 0)

\* the submit asked for the tiebreak points of a 7-6 set, whose fields are shown
C27_WitnessRequired ==
    /\ Submitted /\ scoreError # NoError
    /\ scoreError.text = TbReqText /\ scoreError.label = 2
    /\ formData = submitted[1]
    /\ shouldShowTiebreak(formData, 1)

----------------------------------------------------------------------------
(* Properties of accepting and declining an invite, checked under SpecCoach *)

AnswerRoutes == {"POST /invites/:id/accept", "POST /invites/:id/decline"}

\* the registered users by role
Registered(u) == u \in 1..Len(Users)
IsCoach(u) == Registered(u) /\ Users[u].role = "coach"

\* a step in which an accept or a decline request of user u for the stored
\* invite k is answered
Answers(u, k) ==
    /\ resp'.route \in AnswerRoutes
    /\ resp' # resp \/ db' # db
    /\ resp'.user = u
    /\ resp'.id = k

\* C29: an accept or decline request changes an invite only when the caller
\* is a coach, the invite is addressed to the caller's email and is pending;
\* a caller who is no coach gets 403, a coach the invite is not addressed to
\* gets 404, an invite that is not pending gets 400, and then the invites
\* are as they were.
C29_AnswerOnlyByAddressedCoach ==
    [][\A u \in 1..Len(Users) : \A k \in 1..Len(db.invites) :
         Answers(u, k) =>
           /\ ~IsCoach(u) => (resp'.status = 403 /\ db' = db)
           /\ (IsCoach(u) /\ db.invites[k].coachEmail # Users[u].email)
                 => (resp'.status = 404 /\ db' = db)
           /\ (IsCoach(u) /\ db.invites[k].coachEmail = Users[u].email
                          /\ db.invites[k].status # "pending")
                 => (resp'.status = 400 /\ db' = db)
           /\ db' # db =>
                 /\ IsCoach(u)
                 /\ db.invites[k].coachEmail = Users[u].email
                 /\ db.invites[k].status = "pending"
                 /\ resp'.status = 200
                 /\ \A j \in 1..Len(db.invites) : j # k => db'.invites[j] = db.invites[j]]_vars

\* the second coach asked to accept the first coach's pending invite: 404
C29_Witness ==
    /\ resp.route = "POST /invites/:id/accept"
    /\ resp.user = 3 /\ resp.id = 1 /\ resp.status = 404
    /\ Len(db.invites) >= 1 /\ db.invites[1].status = "pending"

\* the first coach asked to decline the invite they had accepted: 400
C29_WitnessNotPending ==
    /\ resp.route = "POST /invites/:id/decline"
    /\ resp.user = 2 /\ resp.id = 1 /\ resp.status = 400
    /\ Len(db.invites) >= 1 /\ db.invites[1].status = "accepted"

\* the student asked to accept their own invite: 403
C29_WitnessStudent ==
    /\ resp.route = "POST /invites/:id/accept"
    /\ resp.user = 1 /\ resp.id = 1 /\ resp.status = 403
    /\ Len(db.invites) >= 1 /\ db.invites[1].status = "pending"

----------------------------------------------------------------------------
(* Properties of accept and decline requests in flight, checked under      *)
(* SpecRace                                                                *)

\* C28: an invite's status changes at most once, from pending to accepted
\* or declined, and never again, also when an accept and a decline of the
\* same invite interleave between the status check and the update; access
\* given by an accepted invite is never withdrawn.
C28_StatusChangesOnce ==
    [][/\ \A k \in 1..Len(db.invites) :
            db.invites[k].status # "pending"
              => db'.invites[k].status = db.invites[k].status
       /\ \A c \in Coaches : \A s \in Students :
            ensureCoachAccess(c, s) => ensureCoachAccess(c, s)']_vars

\* a decline that found the invite pending is about to be written although
\* the invite has been accepted in the meantime
C28_DeclineOverAccepted ==
    /\ Len(db.invites) >= 1 /\ db.invites[1].status = "accepted"
    /\ resp.route = "POST /invites/:id/accept" /\ resp.status = 200
    /\ \E c \in calls : c.status = "declined" /\ IdOf(c.idText) = 1

\* both requests were answered with 200 and the accepted invite is declined
C28_AccessWithdrawn ==
    /\ Len(posted) = 2 /\ calls = {}
    /\ posted[1].id = 1 /\ posted[2].id = 1
    /\ {posted[1].route, posted[2].route} = AnswerRoutes
    /\ db.invites[1].status = "declined"
    /\ resp.route = "POST /invites/:id/decline" /\ resp.status = 200
    /\ ~ensureCoachAccess(2, 1)

----------------------------------------------------------------------------
(* Properties of the order of the UTR history, checked under SpecUtr *)

\* no entry of the sequence equals the one before it
NoRepeat(h) == \A k \in 1..(Len(h) - 1) : h[k] # h[k + 1]

\* C30: a user's UTR history never holds two consecutive entries with the
\* same rating, whatever preference updates were made, also when updates of
\* one user interleave between the read of the latest entry and the create.
C30_NoConsecutiveEqual ==
    \A u \in Callers \ {0} : NoRepeat(HistoryOf(db.utrHistory, u))

\* user 2 has two entries 7.4 in a row: the call answered last had found no
\* entry although one was recorded before its create
C30_SameRatingTwice ==
    /\ calls = {}
    /\ HistoryOf(db.utrHistory, 2) = <<74, 74>>
    /\ resp.user = 2 /\ resp.status = 200
    /\ resp.body = <<[returned |-> TRUE, rating |-> Some(JsNumber(74)), latest |-> Null]>>

====
